---- MODULE Spec2Model ----
(***************************************************************************)
(* Model of the alert-analysis orchestrator of oncall-assistant-agent:     *)
(*   backend/app/services/analysis_service.py  (registry, stream_analysis, *)
(*                                              continue_analysis)         *)
(*   backend/app/api/analysis.py               (stream / continue /        *)
(*                                              cancel / reanalyze)        *)
(*   backend/app/models/session.py             (AnalysisSession)           *)
(*   backend/app/services/llm_service.py       (analyze_alert)             *)
(*   backend/app/services/ticket_service.py    (create_ticket)             *)
(*                                                                         *)
(* The server is one asyncio event loop: a coroutine runs atomically from  *)
(* one await that performs I/O to the next.  An action below is the        *)
(* completion of the awaited storage read, storage write, connector call   *)
(* or oracle call together with the code that runs until the next such     *)
(* await is issued; a read returns the row as it is, and a commit writes   *)
(* the row, when the coroutine resumes.  The yields of the streaming       *)
(* generators and the pacing sleeps touch neither the registry nor the     *)
(* store and are part of the action they occur in.                         *)
(*                                                                         *)
(* Every request works on its own storage session (AsyncSession): it loads *)
(* the row once into a private object, assigns attributes of that object   *)
(* and commit() writes to the row exactly the attributes whose value       *)
(* differs from the value the object last loaded or committed.             *)
(***************************************************************************)
EXTENDS Naturals, Integers, Sequences, FiniteSets, TLC

\* ---------------------------------------------------------------- bounds
MaxRuns == 2        \* streaming requests (start, reanalyze, continue) issued
MaxCancels == 1     \* cancel requests issued
MaxDs == 2          \* configured datasources read by a run

SessionIds == {1, 2}
RunIds == 1..MaxRuns
CancelIds == 1..MaxCancels

\* ---------------------------------------------------------- AnalysisStatus
PENDING == "pending"
INTENT_UNDERSTANDING == "intent_understanding"
DATA_COLLECTION == "data_collection"
LLM_ANALYSIS == "llm_analysis"
COMPLETED == "completed"
CANCELLED == "cancelled"
ERROR == "error"

Stages == <<INTENT_UNDERSTANDING, DATA_COLLECTION, LLM_ANALYSIS>>
Terminal == {COMPLETED, CANCELLED, ERROR}

None == "none"
NoSession == [status |-> "absent"]

\* ------------------------------------------------------------ StreamEvent
StreamEvent(e, st) == [event |-> e, stage |-> st]
EvCancelled == StreamEvent("cancelled", None)
EvDone == StreamEvent("done", None)
EvError == StreamEvent("error", None)

\* ------------------------------------------------- AnalysisSession (ORM)
\* A message of the conversation log; src stands for the timestamp, which
\* tells the messages of different requests apart.
Msg(role, stage, tag, src) ==
    [role |-> role, stage |-> stage, tag |-> tag, src |-> src, ds |-> 0]

\* create_analysis_session: the row as first stored
NoIntent == [alert_type |-> None, system |-> None]
NoContext == [present |-> FALSE, collection_status |-> <<>>]
ContextData(entries) == [present |-> TRUE, collection_status |-> entries]

NewRow == [status |-> PENDING, stage |-> None, messages |-> <<>>,
           intent |-> NoIntent, context |-> NoContext, result |-> None,
           user |-> "owner"]

NoObj == [loaded |-> NoSession, cur |-> NoSession]

\* get_session_by_id: a private object holding the row as read
get_session_by_id(row) == [loaded |-> row, cur |-> row]

SetAttr(o, f, v) == [o EXCEPT !.cur = [@ EXCEPT ![f] = v]]

add_message(o, m) == SetAttr(o, "messages", Append(o.cur.messages, m))

\* db.commit(): UPDATE of the attributes with a net change, the rest of the
\* row is left as other storage sessions wrote it
Flush(row, o) ==
    [f \in DOMAIN row |-> IF o.cur[f] # o.loaded[f] THEN o.cur[f] ELSE row[f]]

Committed(o) == [o EXCEPT !.loaded = o.cur]

\* update_session_status: the assignments (the commit is the next step)
update_session_status(o, status, stage) ==
    IF stage # None
    THEN SetAttr(SetAttr(o, "status", status), "stage", stage)
    ELSE SetAttr(o, "status", status)


\* -------------------------------------------------------------- inputs
\* The alert of the session: "CPU usage at 95% on order-service"
\* (_understand_intent finds a performance alert with an affected system).
understand_intent == [alert_type |-> "performance", system |-> "order-service"]

\* What _collect_from_datasource records for a source in collection_status:
\* records of the connector, substituted test data, test data after a
\* connector exception.
CollectOutcomes == {"collected", "test_data", "failed_test_data"}

\* The kinds of a configured source: a log backend (ELK, LOKI) or a
\* metric backend (PROMETHEUS).
SourceKinds == {"logs", "metrics"}

\* What the connector of a source does with a query: it returns records,
\* it returns none, it raises.
ConnectorOutcomes == {"records", "empty", "raises"}

\* A configured source as a run meets it.
Sources == SourceKinds \X ConnectorOutcomes

\* test_data_service.get_test_logs and get_test_metrics as shipped: the
\* sample data are regenerated when the store is empty, so data come back.
TestDataAnswer == "data"

\* What _collect_from_datasource leaves for one source: the entry of
\* collection_status, whose records went into the context, whether the
\* test data service was asked and with what query.
Outcome(kind, conn, status, records, asked, query) ==
    [kind |-> kind, conn |-> conn, status |-> status, records |-> records,
     asked |-> asked, query |-> query]

\* _collect_from_datasource with the except clause of line 522 left out
collect_from_datasource_uncaught(kind, conn, fb) ==
    IF conn = "records"
    THEN Outcome(kind, conn, "collected", "connector", FALSE, None)
    ELSE Outcome(kind, conn, "raised", "none", FALSE, None)

\* _collect_from_datasource for a source of the given kind whose connector
\* behaves as conn, with fb the answer the test data service gives when it
\* is asked.  A log source passes query_str on to get_test_logs; a metric
\* source swallows the exceptions of its queries (line 500) and calls
\* get_test_metrics(limit=20), without a query.
collect_from_datasource(kind, conn, fb) ==
    IF conn = "records"
    THEN Outcome(kind, conn, "collected", "connector", FALSE, None)
    ELSE IF kind = "logs"
    THEN IF fb = "data"
         THEN Outcome(kind, conn,
                      IF conn = "empty" THEN "test_data" ELSE "failed_test_data",
                      "fallback", TRUE, "query_str")
         ELSE Outcome(kind, conn,
                      IF conn = "empty" THEN "not_found" ELSE "connect_failed",
                      "none", TRUE, "query_str")
    ELSE IF fb = "data"
         THEN Outcome(kind, conn, "test_data", "fallback", TRUE, None)
         ELSE Outcome(kind, conn, "not_found", "none", TRUE, None)

\* AnalysisRequest.datasource_ids, an optional list of ids: absent, or the
\* list given.
NoIds == [given |-> FALSE, ids |-> <<>>]
Ids(list) == [given |-> TRUE, ids |-> list]

\* The datasource_ids a client sends with a streaming request when it
\* names sources: lists over the configured ids and an id that does not
\* exist.
RequestIds == {NoIds, Ids(<<1>>), Ids(<<2>>), Ids(<<2, 1>>),
               Ids(<<MaxDs + 1>>), Ids(<<MaxDs + 1, 1>>)}

\* get_all_datasources with n datasources configured, their ids 1..n
Configured(n) == [k \in 1..n |-> k]

\* The AnalysisRequest that event_generator hands to stream_analysis: it
\* is built from alert_content and time_range_minutes alone.
stream_request(ids) == NoIds

\* _get_datasources: the existing ones of the ids given, in the order
\* given; every datasource when the list is absent or empty
get_datasources(all, ids) ==
    IF ids.given /\ ids.ids # <<>>
    THEN LET exists(id) == \E k \in 1..Len(all) : all[k] = id
         IN SelectSeq(ids.ids, exists)
    ELSE all

\* What the reasoning oracle does to a call of llm_service.analyze_alert:
\* it answers with JSON, it answers with text that is no JSON, the call
\* fails (transport, authentication), or no API key is configured.
Verdicts == {"parsed", "unparseable", "transport_failed", "no_api_key"}

\* _analyze_with_openai with every exception of the call taken as raised:
\* the except clause of lines 171-180 left out
analyze_alert_uncaught(v) ==
    CASE v = "no_api_key" -> "mock_config_issue"
      [] v = "parsed" -> "parsed_result"
      [] v = "unparseable" -> "raw_text_result"
      [] OTHER -> "raised"

\* _analyze_with_openai: the AnalysisResult returned for each behaviour of
\* the oracle; "raised" stands for an exception that leaves the function
analyze_alert(v) ==
    CASE v = "no_api_key" -> "mock_config_issue"
      [] v = "parsed" -> "parsed_result"
      [] v = "unparseable" -> "raw_text_result"
      [] v = "transport_failed" -> "analysis_error_result"
      [] OTHER -> "raised"

\* The confidence (in percent) of the results built by _analyze_with_openai;
\* a parsed result carries the oracle's own figure, 50 by default.
Confidence(result) ==
    CASE result = "mock_config_issue" -> 0
      [] result = "raw_text_result" -> 30
      [] result = "analysis_error_result" -> 0
      [] OTHER -> 50

\* ---------------------------------------------------- the reasoning client
\* The text of a response is a sequence of tokens: the fence of three
\* backticks, the word json, white space, the punctuation of JSON, the
\* name of a field followed by its colon, the double quote, words and
\* numbers.
Fence == "fence"
WS == "ws"
DQ == "dq"
Keys == {"root_cause", "category", "confidence"}
NumTokens == {"0.0", "0.3", "0.5", "0.9", "7"}

\* JSON values: a string (its tokens between the quotes), a number, null,
\* and the absence of a field.
Str(v) == [t |-> "str", v |-> v]
Num(n) == [t |-> "num", v |-> <<n>>]
Null == [t |-> "null", v |-> <<>>]
Absent == [t |-> "absent", v |-> <<>>]

\* The fields an object of the oracle carries: evidence, temporary_solution
\* and permanent_solution are read and validated as root_cause is and are
\* left out.
RootCauses == {Absent, Null, Num("7"), Str(<<"txt">>),
               Str(<<"txt", Fence, "txt", Fence>>)}
CategoryValues == {Absent, Null, Str(<<"code_issue">>), Str(<<"config_issue">>),
                   Str(<<"resource_bottleneck">>), Str(<<"dependency_failure">>),
                   Str(<<"network_issue">>)}
Confidences == {Absent, Null, Num("0.9"), Str(<<"high">>)}
Objects == {[root_cause |-> rc, category |-> cat, confidence |-> cf] :
               rc \in RootCauses, cat \in CategoryValues, cf \in Confidences}

\* json.dumps of a value and of an object
DumpValue(val) ==
    CASE val.t = "str" -> <<DQ>> \o val.v \o <<DQ>>
      [] val.t = "num" -> val.v
      [] OTHER -> <<"null">>

DumpField(obj, k, comma) ==
    IF obj[k].t = "absent" THEN <<>>
    ELSE (IF comma THEN <<",">> ELSE <<>>) \o <<k>> \o DumpValue(obj[k])

Dumps(obj) ==
    <<"{">>
    \o DumpField(obj, "root_cause", FALSE)
    \o DumpField(obj, "category", obj.root_cause.t # "absent")
    \o DumpField(obj, "confidence",
                 obj.root_cause.t # "absent" \/ obj.category.t # "absent")
    \o <<"}">>

\* The ways the oracle lays its text out.
Wraps == {"bare", "json_fence", "fence"}
Wrap(w, text) ==
    CASE w = "json_fence" -> <<Fence, "json", WS>> \o text \o <<WS, Fence>>
      [] w = "fence" -> <<Fence, WS>> \o text \o <<WS, Fence>>
      [] OTHER -> text

\* Text that is no JSON, and JSON that is no object.
Texts == {<<>>, <<"txt">>, <<Fence, "json", WS, "txt", Fence>>, <<Fence, "txt">>,
          <<"{", "txt">>, <<"{", "root_cause", DQ, "txt", DQ>>}
NonObjects == {<<"[", "]">>, <<"7">>, <<DQ, "txt", DQ>>, <<"null">>}

\* What a call of the oracle brings back: how the call ended (an answer
\* with content, an answer whose content is None, an exception of the
\* client, or no call for want of an API key), the content, and what the
\* content was made of.
Response(how, text, kind, obj, wrap) ==
    [how |-> how, text |-> text, kind |-> kind, obj |-> obj, wrap |-> wrap]
NoObject == [root_cause |-> Absent, category |-> Absent, confidence |-> Absent]
Responses ==
    {Response("answer", Wrap(w, Dumps(obj)), "object", obj, w) :
        obj \in Objects, w \in Wraps}
    \cup {Response("answer", t, "text", NoObject, "bare") : t \in Texts}
    \cup {Response("answer", Wrap(w, t), "non_object", NoObject, w) :
            t \in NonObjects, w \in Wraps}
    \cup {Response(h, <<>>, "none", NoObject, "bare") :
            h \in {"no_content", "raises", "no_key"}}

\* str.split(sep): the first index from which sep occurs in toks, or 0
RECURSIVE Find(_, _, _)
Find(toks, sep, from) ==
    IF from + Len(sep) - 1 > Len(toks) THEN 0
    ELSE IF SubSeq(toks, from, from + Len(sep) - 1) = sep THEN from
    ELSE Find(toks, sep, from + 1)

\* "sep in toks"
Contains(toks, sep) == Find(toks, sep, 1) # 0

\* toks.split(sep)[0]
Piece0(toks, sep) ==
    IF Contains(toks, sep) THEN SubSeq(toks, 1, Find(toks, sep, 1) - 1) ELSE toks

\* toks.split(sep)[1], for toks that contain sep
Piece1(toks, sep) ==
    Piece0(SubSeq(toks, Find(toks, sep, 1) + Len(sep), Len(toks)), sep)

\* str.strip()
RECURSIVE strip(_)
strip(toks) ==
    IF toks = <<>> THEN toks
    ELSE IF Head(toks) = WS THEN strip(Tail(toks))
    ELSE IF toks[Len(toks)] = WS THEN strip(SubSeq(toks, 1, Len(toks) - 1))
    ELSE toks

\* content[:500]
Take500(toks) == SubSeq(toks, 1, IF Len(toks) < 500 THEN Len(toks) ELSE 500)

\* json.loads: what it returns, or the JSONDecodeError (ok = FALSE)
Loaded(kind, fields) == [ok |-> TRUE, kind |-> kind, fields |-> fields]
DecodeError == [ok |-> FALSE, kind |-> "none", fields |-> NoObject]

\* the members of an object from token i on; mode tells what is expected:
\* "first" a name or the closing brace, "name" a name, "more" a comma or
\* the closing brace
RECURSIVE Members(_, _, _, _)
Members(t, i, acc, mode) ==
    IF i > Len(t) THEN DecodeError
    ELSE IF mode \in {"first", "more"} /\ t[i] = "}"
    THEN (IF i = Len(t) THEN Loaded("object", acc) ELSE DecodeError)
    ELSE IF mode = "more"
    THEN (IF t[i] = "," THEN Members(t, i + 1, acc, "name") ELSE DecodeError)
    ELSE IF t[i] \notin Keys \/ i + 1 > Len(t) THEN DecodeError
    ELSE IF t[i + 1] = DQ
    THEN LET j == Find(t, <<DQ>>, i + 2)
         IN IF j = 0 THEN DecodeError
            ELSE Members(t, j + 1, [acc EXCEPT ![t[i]] = Str(SubSeq(t, i + 2, j - 1))],
                         "more")
    ELSE IF t[i + 1] \in NumTokens
    THEN Members(t, i + 2, [acc EXCEPT ![t[i]] = Num(t[i + 1])], "more")
    ELSE IF t[i + 1] = "null"
    THEN Members(t, i + 2, [acc EXCEPT ![t[i]] = Null], "more")
    ELSE DecodeError

json_loads(t) ==
    IF t = <<>> THEN DecodeError
    ELSE IF t[1] = "{" THEN Members(t, 2, NoObject, "first")
    ELSE IF t = <<"[", "]">> \/ t = <<"null">> THEN Loaded("other", NoObject)
    ELSE IF Len(t) = 1 /\ t[1] \in NumTokens THEN Loaded("other", NoObject)
    ELSE IF Len(t) >= 2 /\ t[1] = DQ /\ Find(t, <<DQ>>, 2) = Len(t)
    THEN Loaded("other", NoObject)
    ELSE DecodeError

\* An AnalysisResult, or the exception that left the function; the
\* confidence is in percent, -1 for None.
Percent(n) ==
    CASE n = "0.0" -> 0
      [] n = "0.3" -> 30
      [] n = "0.5" -> 50
      [] n = "0.9" -> 90
      [] OTHER -> 700

AnalysisResult(root_cause, category, confidence) ==
    [raised |-> FALSE, root_cause |-> root_cause, category |-> category,
     confidence |-> confidence]
Raised == [raised |-> TRUE, root_cause |-> <<>>, category |-> <<>>, confidence |-> -1]

\* lines 109-116, 163-170 and 173-180
MockResult == AnalysisResult(<<"no_api_key">>, <<"config_issue">>, 0)
RawTextResult(content) == AnalysisResult(Take500(content), <<"code_issue">>, 30)
ErrorResult == AnalysisResult(<<"analysis_error">>, <<"code_issue">>, 0)

\* dict.get(key, default)
Get(fields, k, default) == IF fields[k].t = "absent" THEN default ELSE fields[k]

\* The validation AnalysisResult makes of its fields (pydantic 2): a str
\* field takes a string, the Optional[float] takes a number, a string that
\* reads as a number, or None.
ValidStr(val) == val.t = "str"
ValidFloat(val) ==
    \/ val.t \in {"num", "null"}
    \/ val.t = "str" /\ Len(val.v) = 1 /\ val.v[1] \in NumTokens

\* lines 153-160: the result built from the decoded object, or the
\* exception (AttributeError of a value without get, ValidationError)
from_result_data(data) ==
    IF data.kind # "object" THEN Raised
    ELSE LET rc == Get(data.fields, "root_cause", Str(<<"undetermined">>))
             cat == Get(data.fields, "category", Str(<<"code_issue">>))
             cf == Get(data.fields, "confidence", Num("0.5"))
         IN IF ValidStr(rc) /\ ValidStr(cat) /\ ValidFloat(cf)
            THEN AnalysisResult(rc.v, cat.v,
                                IF cf.t = "null" THEN -1 ELSE Percent(cf.v[1]))
            ELSE Raised

\* lines 147-150: the text between the fences
extract(content) ==
    IF Contains(content, <<Fence, "json">>)
    THEN Piece0(Piece1(content, <<Fence, "json">>), <<Fence>>)
    ELSE IF Contains(content, <<Fence>>)
    THEN Piece0(Piece1(content, <<Fence>>), <<Fence>>)
    ELSE content

\* lines 145-170: the inner try block
parse_content(content) ==
    LET data == json_loads(strip(extract(content)))
    IN IF data.ok THEN from_result_data(data) ELSE RawTextResult(extract(content))

\* _analyze_with_openai without the except clause of lines 171-180
analyze_with_openai_unguarded(resp) ==
    IF resp.how = "no_key" THEN MockResult
    ELSE IF resp.how \in {"raises", "no_content"} THEN Raised
    ELSE parse_content(resp.text)

\* _analyze_with_openai, lines 107-180: the mock result without an API
\* key; the exception of the call, of a content that is None ("in" on
\* None) and of the construction of the result are caught by the except
\* clause of line 171
analyze_with_openai(resp) ==
    IF resp.how = "no_key" THEN MockResult
    ELSE IF resp.how \in {"raises", "no_content"} THEN ErrorResult
    ELSE IF parse_content(resp.text).raised THEN ErrorResult
    ELSE parse_content(resp.text)

\* ----------------------------------------------------- intent extraction
\* An alert text is a sequence of pieces: words and parts of words that
\* the functions below never look inside, the space, and punctuation.
\* Each piece has a number of characters and a lower-case form.
Space == " "
Suffix == "-service"
Pieces == {"CPU", "error", "db", "x", "The", Suffix, Space, ","}

Lower(p) ==
    CASE p = "CPU" -> "cpu"
      [] p = "The" -> "the"
      [] OTHER -> p

Chars(p) ==
    CASE p = "CPU" -> 3
      [] p = "error" -> 5
      [] p = "db" -> 2
      [] p = "The" -> 3
      [] p = Suffix -> 8
      [] OTHER -> 1

\* str.lower() and len() of a text
lower(text) == [k \in 1..Len(text) |-> Lower(text[k])]

RECURSIVE len(_)
len(text) == IF text = <<>> THEN 0 ELSE Chars(Head(text)) + len(Tail(text))

\* the replace calls of line 453: the two commas and the two full stops
\* become spaces
Punctuation == {",", ".", "fullwidth_comma", "ideographic_full_stop"}
replace_punctuation(text) ==
    [k \in 1..Len(text) |-> IF text[k] \in Punctuation THEN Space ELSE text[k]]

\* str.split(): the runs of pieces between white space, in order
RECURSIVE SplitFrom(_, _, _, _)
SplitFrom(text, i, word, words) ==
    LET closed == IF word = <<>> THEN words ELSE Append(words, word)
    IN IF i > Len(text) THEN closed
       ELSE IF text[i] = Space THEN SplitFrom(text, i + 1, <<>>, closed)
       ELSE SplitFrom(text, i + 1, Append(word, text[i]), words)

split(text) == SplitFrom(text, 1, <<>>, <<>>)

\* " ".join(words)
RECURSIVE join(_)
join(words) ==
    IF words = <<>> THEN <<>>
    ELSE IF Len(words) = 1 THEN words[1]
    ELSE words[1] \o <<Space>> \o join(Tail(words))

\* seq[:n]
Slice(seq, n) == SubSeq(seq, 1, IF Len(seq) < n THEN Len(seq) ELSE n)

\* stop_words of line 452, each a text of one piece; its seven Chinese
\* words are of one character and fail the test of the length as well
stop_words == {<<w>> : w \in {"a", "the", "is", "at", "for", "to", "and", "or"}}

\* _extract_keywords with the test of the word as it is written, not of
\* its lower-case form
extract_keywords_case_sensitive(alert_content) ==
    LET words == split(replace_punctuation(alert_content))
        keep(w) == w \notin stop_words /\ len(w) > 1
    IN join(Slice(SelectSeq(words, keep), 10))

\* _extract_keywords, lines 450-455
extract_keywords(alert_content) ==
    LET words == split(replace_punctuation(alert_content))
        keep(w) == lower(w) \notin stop_words /\ len(w) > 1
    IN join(Slice(SelectSeq(words, keep), 10))

\* the keyword families of lines 388-395, in the order they are tried;
\* the Chinese keywords of each family are left out
Families ==
    <<[type |-> "performance", keys |-> {"cpu", "memory", "disk", "load"}],
      [type |-> "error", keys |-> {"error", "exception", "fail"}],
      [type |-> "availability", keys |-> {"down", "unreachable", "timeout"}],
      [type |-> "network", keys |-> {"network", "connection"}]>>

\* "any(k in content for k in keys)"
AnyIn(keys, content) == \E k \in keys : Contains(content, <<k>>)

\* lines 388-397 with the keywords looked for in the text as it is written
alert_type_of_case_sensitive(alert_content) ==
    LET hits == {f \in 1..Len(Families) : AnyIn(Families[f].keys, alert_content)}
    IN IF hits = {} THEN "general"
       ELSE Families[CHOOSE f \in hits : \A g \in hits : f <= g].type

\* lines 385-397: the first family one of whose keywords occurs in the
\* lower-cased text
alert_type_of(alert_content) ==
    LET content_lower == lower(alert_content)
        hits == {f \in 1..Len(Families) : AnyIn(Families[f].keys, content_lower)}
    IN IF hits = {} THEN "general"
       ELSE Families[CHOOSE f \in hits : \A g \in hits : f <= g].type

\* lines 403-407: the first word, of the text split at white space, that
\* ends with -service; <<>> stands for None
affected_system_of(alert_content) ==
    LET words == split(alert_content)
        named == {k \in 1..Len(words) : words[k][Len(words[k])] = Suffix}
    IN IF named = {} THEN <<>>
       ELSE words[CHOOSE k \in named : \A j \in named : k <= j]

\* lines 410-416
suggested_metrics_of(alert_type) ==
    CASE alert_type = "performance" -> <<"cpu_usage", "memory_usage", "disk_usage">>
      [] alert_type = "availability" -> <<"up", "response_time", "error_rate">>
      [] alert_type = "network" -> <<"network_in", "network_out", "connection_count">>
      [] OTHER -> <<>>

\* IntentResult, schemas/analysis.py
IntentResult(summary, alert_type, affected_system, keywords, suggested_metrics) ==
    [summary |-> summary, alert_type |-> alert_type,
     affected_system |-> affected_system, keywords |-> keywords,
     suggested_metrics |-> suggested_metrics]

\* _understand_intent, lines 382-424; the texts modelled are shorter than
\* the 100 characters the summary is cut to
UnderstandIntent(alert_content) ==
    IntentResult(IF len(alert_content) > 100 THEN <<"first 100 characters">>
                 ELSE alert_content,
                 alert_type_of(alert_content),
                 affected_system_of(alert_content),
                 Slice(split(extract_keywords(alert_content)), 10),
                 suggested_metrics_of(alert_type_of(alert_content)))

\* The alert texts given: every text of up to MaxAlertLen pieces, and
\* texts of more than ten words.
MaxAlertLen == 3
MaxWords == 12
MaxCalls == 3

RECURSIVE Repeat(_, _)
Repeat(text, n) == IF n = 0 THEN <<>> ELSE text \o Repeat(text, n - 1)

ShortTexts == UNION {[1..n -> Pieces] : n \in 0..MaxAlertLen}
LongTexts ==
    {Repeat(<<"db", Space>>, n) : n \in 10..MaxWords}
    \cup {<<"The", Space, "x", ",">> \o Repeat(<<"db", ",">>, 9)
             \o <<"CPU", Space, "error", Space, "db", Suffix>>}
AlertTexts == ShortTexts \cup LongTexts

\* The texts of the calls made between two calls with one text.
OtherTexts == {<<"error">>, <<"db", Suffix, Space, "CPU">>}

\* ----------------------------------------------------------------- tickets
\* A ticket number is the prefix OC with the date, and a sequence number as
\* a string of digits.
MaxCreates == 2
CreateIds == 1..MaxCreates

Today == "OC20240208"
Yesterday == "OC20240207"

\* str(n), the digits of n
RECURSIVE DigitsOf(_)
DigitsOf(n) == IF n < 10 THEN <<n>> ELSE Append(DigitsOf(n \div 10), n % 10)

\* the format 05d: zeros in front up to a width of five
Format05(seq) ==
    LET ds == DigitsOf(seq)
        pad == IF Len(ds) >= 5 THEN 0 ELSE 5 - Len(ds)
    IN [k \in 1..(pad + Len(ds)) |-> IF k <= pad THEN 0 ELSE ds[k - pad]]

\* ticket_no[-5:] and int()
Last5(digits) == SubSeq(digits, Len(digits) - 4, Len(digits))

RECURSIVE IntOf(_)
IntOf(digits) ==
    IF digits = <<>> THEN 0
    ELSE IntOf(SubSeq(digits, 1, Len(digits) - 1)) * 10 + digits[Len(digits)]

\* the order of strings, by which the query sorts ticket_no
RECURSIVE StrLess(_, _)
StrLess(a, b) ==
    IF a = <<>> THEN b # <<>>
    ELSE IF b = <<>> THEN FALSE
    ELSE IF Head(a) # Head(b) THEN Head(a) < Head(b)
    ELSE StrLess(Tail(a), Tail(b))

TicketNo(prefix, seq) == [prefix |-> prefix, digits |-> Format05(seq)]
NoTicketNo == [prefix |-> None, digits |-> <<>>]

\* generate_ticket_no, lines 16-35, on the tickets table as the query of
\* lines 21-26 finds it
generate_ticket_no(table, prefix) ==
    LET todays == {t \in table : t.prefix = prefix}
        latest == CHOOSE t \in todays :
                     \A u \in todays : u = t \/ StrLess(u.digits, t.digits)
    IN TicketNo(prefix, IF todays = {} THEN 1 ELSE IntOf(Last5(latest.digits)) + 1)

\* The tickets table when the first request arrives.
InitialTables ==
    {{}, {TicketNo(Yesterday, 1), TicketNo(Yesterday, 2)},
     {TicketNo(Yesterday, 3), TicketNo(Today, 1), TicketNo(Today, 2)}}

IdleCreate == [pc |-> "idle", no |-> NoTicketNo, outcome |-> None]

\* ---------------------------------------------------------------- state
VARIABLES
    active,      \* _active_sessions
    cancelled,   \* _cancelled_sessions
    store,       \* the sessions table: session id -> row
    run,         \* the streaming requests: run id -> record
    cancel,      \* the cancel requests: cancel id -> record
    nRuns,       \* streaming requests issued so far
    nCancels,    \* cancel requests issued so far
    accBefore,   \* history: runs for which a cancel was accepted before a
                 \* stage of theirs had begun
    env,         \* the environment of the behaviour, fixed from the start
    cc,          \* the call of collect_context made by perform_analysis
    denied,      \* the request the endpoints have rejected
    llm,         \* a call of llm_service.analyze_alert, seen from inside
    intents,     \* the calls of _understand_intent made so far
    tickets      \* the tickets table and the calls of create_ticket

vars == <<active, cancelled, store, run, cancel, nRuns, nCancels, accBefore, env, cc, denied, llm, intents, tickets>>

IdleRun == [kind |-> "none", sid |-> 0, pc |-> "idle", obj |-> NoObj,
            events |-> <<>>, ds |-> 0, i |-> 0, ctx |-> <<>>, fault |-> FALSE,
            asked |-> NoIds, which |-> <<>>, user |-> "owner"]

\* collect_context before it is called: its datasources (kinds), the state
\* of the task of each, the context it builds (logs, metrics,
\* collection_status) and the calls it has made to the test data service.
IdleCollect == [pc |-> "idle", kinds |-> <<>>, task |-> <<>>, logs |-> <<>>,
                metrics |-> <<>>, status |-> <<>>, calls |-> <<>>]

IdleCancel == [sid |-> 0, pc |-> "idle", obj |-> NoObj, resp |-> None,
               user |-> "owner"]

\* analyze_alert before it is called
IdleCall == [pc |-> "idle", response |-> Response("none", <<>>, "none", NoObject, "bare"),
             result |-> Raised]

\* The sessions whose runs call _understand_intent.
IntentSessions == {1, 2}

\* No request has been rejected.
NoDenial == [op |-> None, sid |-> 0, user |-> None, code |-> None]

\* The environments checked.  "faults": one streaming request, any commit
\* of the run may fail, every connector and oracle outcome.  "overlap":
\* MaxRuns streaming requests against the session with no restriction on
\* their timing, a storage that does not fail, one datasource, one
\* representative outcome.  "legacy": no streaming request, one call of
\* collect_context (the non-streaming perform_analysis).  "select": one
\* streaming request that may name datasources, MaxDs datasources
\* configured.  "denied": one streaming request of the owner, and requests
\* of another user, who has no session, with ids that user made up.
\* "oracle": no request, one call of llm_service.analyze_alert with every
\* response of the oracle.  "intent": no request, MaxCalls calls of
\* _understand_intent.  "sessions": MaxRuns streaming requests, each for an
\* alert of its own, so that each run has a session of its own; a storage
\* that does not fail, one datasource.  "tickets": no analysis, MaxCreates
\* requests to create a ticket.
Environments ==
    {[name |-> "faults", runs |-> 1, faults |-> TRUE, ds |-> 0..MaxDs,
      outcomes |-> Sources, verdicts |-> Verdicts, ids |-> {NoIds}, users |-> {"owner"},
      sessions |-> {1}, rerun |-> TRUE],
     [name |-> "overlap", runs |-> MaxRuns, faults |-> FALSE, ds |-> {1},
      outcomes |-> {<<"logs", "records">>}, verdicts |-> {"parsed"}, ids |-> {NoIds}, users |-> {"owner"},
      sessions |-> {1}, rerun |-> TRUE],
     [name |-> "legacy", runs |-> 0, faults |-> FALSE, ds |-> 0..MaxDs,
      outcomes |-> Sources, verdicts |-> {"parsed"}, ids |-> {NoIds}, users |-> {"owner"},
      sessions |-> {1}, rerun |-> TRUE],
     [name |-> "select", runs |-> 1, faults |-> FALSE, ds |-> {MaxDs},
      outcomes |-> {<<"logs", "records">>}, verdicts |-> {"parsed"},
      ids |-> RequestIds, users |-> {"owner"},
      sessions |-> {1}, rerun |-> TRUE],
     [name |-> "denied", runs |-> 1, faults |-> FALSE, ds |-> {1},
      outcomes |-> {<<"logs", "records">>}, verdicts |-> {"parsed"},
      ids |-> {NoIds}, users |-> {"owner", "other"},
      sessions |-> {1}, rerun |-> TRUE],
     [name |-> "oracle", runs |-> 0, faults |-> FALSE, ds |-> {0},
      outcomes |-> {<<"logs", "records">>}, verdicts |-> {"parsed"},
      ids |-> {NoIds}, users |-> {"owner"},
      sessions |-> {1}, rerun |-> TRUE],
     [name |-> "intent", runs |-> 0, faults |-> FALSE, ds |-> {0},
      outcomes |-> {<<"logs", "records">>}, verdicts |-> {"parsed"},
      ids |-> {NoIds}, users |-> {"owner"},
      sessions |-> {1}, rerun |-> TRUE],
     [name |-> "sessions", runs |-> MaxRuns, faults |-> FALSE, ds |-> {1},
      outcomes |-> {<<"logs", "records">>}, verdicts |-> {"parsed"},
      ids |-> {NoIds}, users |-> {"owner"},
      sessions |-> SessionIds, rerun |-> FALSE],
     [name |-> "tickets", runs |-> 0, faults |-> FALSE, ds |-> {0},
      outcomes |-> {<<"logs", "records">>}, verdicts |-> {"parsed"},
      ids |-> {NoIds}, users |-> {"owner"},
      sessions |-> {1}, rerun |-> FALSE]}

Init ==
    /\ env \in Environments
    /\ active = {}
    /\ cancelled = {}
    /\ store = [s \in SessionIds |-> NoSession]
    /\ run = [r \in RunIds |-> IdleRun]
    /\ cancel = [c \in CancelIds |-> IdleCancel]
    /\ nRuns = 0
    /\ nCancels = 0
    /\ accBefore = {}
    /\ cc = IdleCollect
    /\ denied = NoDenial
    /\ llm = IdleCall
    /\ intents = <<>>
    /\ \E table \in (IF env.name = "tickets" THEN InitialTables ELSE {{}}) :
          tickets = [table |-> table, call |-> [c \in CreateIds |-> IdleCreate]]

Pipeline(r) == run[r].kind \in {"stream", "reanalyze"}
FollowUp(r) == run[r].kind = "continue"

\* pcs at which the generator of stream_analysis / continue_analysis has
\* been entered (the id was added to _active_sessions) and not yet left
GeneratorPcs ==
    {"s1_status", "s1_commit", "s2_status", "test_data", "collect", "s2_ctx",
     "s3_status", "s3_msg", "analyze", "s3_commit", "done_status", "done_msg",
     "except", "except_msg", "f_commit", "f_analyze", "f_commit2", "finally"}

InProgress(r) == run[r].pc \in GeneratorPcs

Has(evs, e) == \E k \in 1..Len(evs) : evs[k] = e

\* A stage of the run can still begin: the run is in its try block and
\* has not emitted stage_start(llm_analysis), the last stage there is.
StageAhead(r) ==
    /\ Pipeline(r)
    /\ InProgress(r)
    /\ run[r].pc \notin {"except", "except_msg", "finally"}
    /\ ~Has(run[r].events, StreamEvent("stage_start", LLM_ANALYSIS))

Emit(rec, evs) == [rec EXCEPT !.events = @ \o evs]
Goto(rec, pc) == [rec EXCEPT !.pc = pc]

\* ------------------------------------------------------------ endpoints
\* A client learns the id of a session from the X-Session-Id header of the
\* streaming response, which is built after the commit of the user message;
\* requests on a session are issued with an id learnt that way.
Known(s) ==
    /\ store[s] # NoSession
    /\ \A r \in RunIds : run[r].sid = s => run[r].pc # "user_msg"

\* create_analysis_stream, first commit (create_analysis_session); the id
\* of the row is the next of the autoincrement column
create_analysis_stream(s) ==
    /\ nRuns < env.runs
    /\ store[s] = NoSession
    /\ \A t \in SessionIds : t < s => store[t] # NoSession
    /\ store' = [store EXCEPT ![s] = NewRow]
    /\ nRuns' = nRuns + 1
    /\ \E ids \in env.ids :
          run' = [run EXCEPT ![nRuns + 1] =
                    [IdleRun EXCEPT !.kind = "stream", !.sid = s, !.pc = "user_msg",
                                    !.asked = ids,
                                    !.obj = get_session_by_id(NewRow)]]
    /\ UNCHANGED <<active, cancelled, cancel, nCancels, accBefore, env, cc, denied, llm, intents, tickets>>

\* create_analysis_stream, the user message and its commit
StreamUserMsg(r) ==
    /\ run[r].pc = "user_msg"
    /\ LET o == add_message(run[r].obj, Msg("user", None, "alert", <<"run", r>>))
       IN /\ store' = [store EXCEPT ![run[r].sid] = Flush(@, o)]
          /\ run' = [run EXCEPT ![r] = [@ EXCEPT !.obj = NoObj, !.pc = "gen_load"]]
    /\ UNCHANGED <<active, cancelled, cancel, nRuns, nCancels, accBefore, env, cc, denied, llm, intents, tickets>>

\* The owner of a session asks for it by the id the header gave; another
\* user asks for any id.
Asks(u, s) == u = "owner" => Known(s)

\* The test every endpoint of a session makes on the row it read, without
\* the comparison of the user ids
authorize_any_user(row, u) ==
    IF row = NoSession THEN "not_found" ELSE "ok"

\* The test every endpoint of a session makes on the row it read, before
\* anything else: 404 when there is no row, 403 when the row belongs to
\* another user
authorize(row, u) ==
    IF row = NoSession THEN "not_found"
    ELSE IF row.user # u THEN "forbidden"
    ELSE "ok"

\* The HTTPException raised by the test: nothing but the answer is made.
Reject(op, s, u) ==
    /\ denied = NoDenial
    /\ denied' = [op |-> op, sid |-> s, user |-> u, code |-> authorize(store[s], u)]
    /\ UNCHANGED <<active, cancelled, store, run, cancel, nRuns, nCancels, accBefore,
                   env, cc, llm, intents, tickets>>

\* reanalyze: the handler reads the session
reanalyze(s) ==
    \E u \in env.users :
       /\ Asks(u, s)
       /\ IF authorize(store[s], u) = "ok"
          THEN /\ nRuns < env.runs
               /\ env.rerun
               /\ nRuns' = nRuns + 1
               /\ run' = [run EXCEPT ![nRuns + 1] =
                            [IdleRun EXCEPT !.kind = "reanalyze", !.sid = s,
                                            !.pc = "re_reset", !.user = u,
                                            !.obj = get_session_by_id(store[s])]]
               /\ UNCHANGED <<active, cancelled, store, cancel, nCancels, accBefore,
                              env, cc, denied, llm, intents, tickets>>
          ELSE Reject("reanalyze", s, u)

\* reanalyze: the reset of the session and its commit
ReanalyzeReset(r) ==
    /\ run[r].pc = "re_reset"
    /\ LET o == add_message(
                  SetAttr(SetAttr(run[r].obj, "status", PENDING), "result", None),
                  Msg("user", None, "reanalyze", <<"run", r>>))
       IN /\ store' = [store EXCEPT ![run[r].sid] = Flush(@, o)]
          /\ run' = [run EXCEPT ![r] = [@ EXCEPT !.obj = NoObj, !.pc = "gen_load"]]
    /\ UNCHANGED <<active, cancelled, cancel, nRuns, nCancels, accBefore, env, cc, denied, llm, intents, tickets>>

\* continue_analysis (endpoint): the handler finds the session and returns
\* the streaming response
continue_request(s) ==
    \E u \in env.users :
       /\ Asks(u, s)
       /\ IF authorize(store[s], u) = "ok"
          THEN /\ nRuns < env.runs
               /\ env.rerun
               /\ nRuns' = nRuns + 1
               /\ run' = [run EXCEPT ![nRuns + 1] =
                            [IdleRun EXCEPT !.kind = "continue", !.sid = s,
                                            !.pc = "gen_load", !.user = u]]
               /\ UNCHANGED <<active, cancelled, store, cancel, nCancels, accBefore,
                              env, cc, denied, llm, intents, tickets>>
          ELSE Reject("continue", s, u)

\* get_analysis: the handler reads the session and answers with it
get_analysis(s) ==
    \E u \in env.users :
       /\ Asks(u, s)
       /\ IF authorize(store[s], u) = "ok"
          THEN UNCHANGED vars
          ELSE Reject("get", s, u)

\* delete_analysis, lines 272-284; the owner deletes no session while
\* requests are made on it, so that the request modelled is the one of
\* another user or for an id without a row
delete_analysis(s) ==
    \E u \in env.users :
       /\ Asks(u, s)
       /\ authorize(store[s], u) # "ok"
       /\ Reject("delete", s, u)

\* ------------------------------------------------------ cancel endpoint
\* cancel_session marking the id whether or not it is active
cancel_session_flag_always(s) == cancelled \cup {s}

\* cancel_session: the new _cancelled_sessions
cancel_session_flag(s) == IF s \in active THEN cancelled \cup {s} ELSE cancelled

\* cancel_session taking the id out of the active set
cancel_session_active_removed(s) == active \ {s}

\* cancel_session: the _active_sessions it leaves
cancel_session_active(s) == active

\* cancel_session: its return value
cancel_session(s) == s \in active

\* cancel_analysis, lines 175-193: the session is read, cancel_session is
\* called and, when it accepted, the assignments are made
cancel_analysis(s) ==
    \E u \in env.users :
       /\ Asks(u, s)
       /\ IF authorize(store[s], u) = "ok"
          THEN /\ nCancels < MaxCancels
               /\ nCancels' = nCancels + 1
               /\ cancelled' = cancel_session_flag(s)
               /\ active' = cancel_session_active(s)
               /\ IF cancel_session(s)
                  THEN /\ cancel' = [cancel EXCEPT ![nCancels + 1] =
                             [sid |-> s, pc |-> "commit", resp |-> None, user |-> u,
                              obj |-> add_message(
                                         SetAttr(get_session_by_id(store[s]), "status",
                                                 CANCELLED),
                                         Msg("system", None, "user_cancelled",
                                             <<"cancel", nCancels + 1>>))]]
                       /\ accBefore' = accBefore \cup
                             {r \in RunIds : run[r].sid = s /\ StageAhead(r)}
                  ELSE /\ cancel' = [cancel EXCEPT ![nCancels + 1] =
                             [sid |-> s, pc |-> "done", resp |-> "not_active",
                              user |-> u, obj |-> NoObj]]
                       /\ UNCHANGED accBefore
               /\ UNCHANGED <<store, run, nRuns, env, cc, denied, llm, intents, tickets>>
          ELSE Reject("cancel", s, u)

\* cancel_analysis, lines 194-195: the commit and the answer
CancelCommit(c) ==
    /\ cancel[c].pc = "commit"
    /\ store' = [store EXCEPT ![cancel[c].sid] = Flush(@, cancel[c].obj)]
    /\ cancel' = [cancel EXCEPT ![c] =
                    [@ EXCEPT !.pc = "done", !.obj = NoObj, !.resp = "cancelled"]]
    /\ UNCHANGED <<active, cancelled, run, nRuns, nCancels, accBefore, env, cc, denied, llm, intents, tickets>>


\* ------------------------------------------------------- the generators
\* A check of the cancel flag reads nothing but the registry, so it is taken
\* in the same step as the commit or the read that the generator awaited
\* before it; the checks that follow a connector or an oracle call are
\* taken when the call returns.

\* is_session_cancelled answering for any id that is marked
FlaggedAny(r) == cancelled # {}

\* is_session_cancelled(session_id), lines 26-28
Flagged(r) == run[r].sid \in cancelled

\* The cancelled branch without its return: the generator carries on.
AfterCancelledNoReturn(rec) == rec

\* The exit of a branch that has yielded the cancelled event: return.
AfterCancelled(rec) == Goto(rec, "finally")

\* The check left out: the generator goes on whatever the registry holds.
CheckCancelledSkipped(r, rec, go) == go

\* "if is_session_cancelled(session_id): yield cancelled; return" reached
\* by the run as record rec, which otherwise goes on as record go
CheckCancelled(r, rec, go) ==
    IF Flagged(r) THEN AfterCancelled(Emit(rec, <<EvCancelled>>)) ELSE go

\* A step of a generator that changes nothing but the run itself.
Local(r, rec) ==
    /\ run' = [run EXCEPT ![r] = rec]
    /\ UNCHANGED <<active, cancelled, store, cancel, nRuns, nCancels, accBefore, env, cc, denied, llm, intents, tickets>>

\* The run once the commit of object o has returned.
After(r, o) == [run[r] EXCEPT !.obj = Committed(o)]

\* An except clause that yields the error event before it records the
\* error.
RaiseYieldingFirst(r, o) ==
    Emit([run[r] EXCEPT !.obj = o, !.pc = IF Pipeline(r) THEN "except" ELSE "finally"],
         <<EvError>>)

\* The except clause of stream_analysis is entered with the object as the
\* failed step left it; the except clause of continue_analysis yields the
\* error event at once.
Raise(r, o) ==
    IF Pipeline(r)
    THEN [run[r] EXCEPT !.obj = o, !.pc = "except"]
    ELSE Emit([run[r] EXCEPT !.obj = o, !.pc = "finally"], <<EvError>>)

\* "await db.commit()" inside the try block of a generator: the write of
\* object o lands and the run goes on as record next, or the storage fails
\* and the exception is raised in the generator.
DbCommit(r, o, next) ==
    /\ \/ /\ store' = [store EXCEPT ![run[r].sid] = Flush(@, o)]
          /\ run' = [run EXCEPT ![r] = next]
       \/ /\ env.faults
          /\ UNCHANGED store
          /\ run' = [run EXCEPT ![r] = [Raise(r, o) EXCEPT !.fault = TRUE]]
    /\ UNCHANGED <<active, cancelled, cancel, nRuns, nCancels, accBefore, env, cc, denied, llm, intents, tickets>>

\* _active_sessions.add(session_id)
Register(s) == active \cup {s}

\* the finally clause, line 378
UnregisterActive(s) == active \ {s}

\* the finally clause without line 379
UnregisterCancelledKept(s) == cancelled

\* the finally clause, line 379
UnregisterCancelled(s) == cancelled \ {s}

\* The generator is left: its storage session is closed, its locals are gone.
Exited(rec) ==
    [rec EXCEPT !.pc = "exited", !.obj = NoObj, !.ds = 0, !.i = 0, !.ctx = <<>>,
                !.which = <<>>]

\* event_generator reads the session through the stream's own storage
\* session and enters stream_analysis, lines 127-136
StreamBegin(r) ==
    /\ run[r].pc = "gen_load"
    /\ Pipeline(r)
    /\ active' = Register(run[r].sid)
    /\ run' = [run EXCEPT ![r] =
                 Emit([@ EXCEPT !.pc = "s1_status",
                                !.obj = get_session_by_id(store[run[r].sid])],
                      <<StreamEvent("stage_start", INTENT_UNDERSTANDING)>>)]
    /\ UNCHANGED <<cancelled, store, cancel, nRuns, nCancels, accBefore, env, cc, denied, llm, intents, tickets>>

\* the messages of lines 148-152
IntentMessages(o, intent, src) ==
    LET o1 == add_message(o, Msg("assistant", INTENT_UNDERSTANDING, "summary", src))
        o2 == add_message(o1, Msg("assistant", INTENT_UNDERSTANDING, "alert_type", src))
        o3 == IF intent.system # None
              THEN add_message(o2, Msg("assistant", INTENT_UNDERSTANDING, "system", src))
              ELSE o2
    IN add_message(o3, Msg("assistant", INTENT_UNDERSTANDING, "keywords", src))

\* lines 138-152: the status commit, the check of stage 1, the intent
Stage1Status(r) ==
    /\ run[r].pc = "s1_status"
    /\ LET o == update_session_status(run[r].obj, INTENT_UNDERSTANDING,
                                      INTENT_UNDERSTANDING)
           a == After(r, o)
       IN DbCommit(r, o, CheckCancelled(r, a,
             [a EXCEPT !.pc = "s1_commit",
                       !.obj = IntentMessages(SetAttr(@, "intent", understand_intent),
                                              understand_intent, <<"run", r>>)]))

\* lines 153-180: the commit of the intent, the events that close stage 1,
\* the check and the start of stage 2
Stage1Commit(r) ==
    /\ run[r].pc = "s1_commit"
    /\ LET a == Emit(After(r, run[r].obj),
                     <<StreamEvent("stage_progress", INTENT_UNDERSTANDING),
                       StreamEvent("stage_complete", INTENT_UNDERSTANDING)>>)
       IN DbCommit(r, run[r].obj, CheckCancelled(r, a,
             Goto(Emit(a, <<StreamEvent("stage_start", DATA_COLLECTION)>>), "s2_status")))

\* lines 182-243: the status commit; _get_datasources answers with n
\* configurations; with none the run announces the test data and asks the
\* test data service, else it enters the loop: check, progress event, call
\* of _collect_from_datasource
Stage2Status(r) ==
    /\ run[r].pc = "s2_status"
    /\ \E n \in env.ds :
        LET o == update_session_status(run[r].obj, DATA_COLLECTION, DATA_COLLECTION)
            a == After(r, o)
            datasources == get_datasources(Configured(n), stream_request(run[r].asked))
        IN DbCommit(r, o,
             IF datasources = <<>>
             THEN Emit([a EXCEPT !.ds = 0, !.ctx = <<>>, !.pc = "test_data",
                                 !.obj = add_message(@, Msg("assistant", DATA_COLLECTION,
                                                            "no_datasource", <<"run", r>>))],
                       <<StreamEvent("stage_progress", DATA_COLLECTION)>>)
             ELSE CheckCancelled(r, a,
                    Emit([a EXCEPT !.ds = Len(datasources), !.which = datasources,
                                   !.i = 1, !.ctx = <<>>, !.pc = "collect"],
                         <<StreamEvent("stage_progress", DATA_COLLECTION)>>)))

\* Stage3Begin without the yield of line 271
Stage3BeginNoStart(r, a) ==
    CheckCancelled(r, a, Goto(a, "s3_status"))

\* lines 267-275, reached by the run as record a
Stage3Begin(r, a) ==
    CheckCancelled(r, a,
        Goto(Emit(a, <<StreamEvent("stage_start", LLM_ANALYSIS)>>), "s3_status"))

\* The status entries of the path without datasources, lines 202-221 (and
\* 600-624), without the entry of the metrics
TestEntriesLogsOnly(logs, metrics) ==
    IF logs = "data" THEN <<[ds |-> "test_logs", status |-> "test_data"]>> ELSE <<>>

\* The status entries of the path without datasources, lines 202-221 (and
\* 600-624): test_logs when get_test_logs answered with data, test_metrics
\* when get_test_metrics did
TestEntries(logs, metrics) ==
    (IF logs = "data" THEN <<[ds |-> "test_logs", status |-> "test_data"]>> ELSE <<>>)
    \o (IF metrics = "data" THEN <<[ds |-> "test_metrics", status |-> "test_data"]>>
        ELSE <<>>)

\* lines 199-223 and 254-275: the test data arrive, the context is saved,
\* the check and the start of stage 3
TestData(r) ==
    /\ run[r].pc = "test_data"
    /\ LET entries == TestEntries(TestDataAnswer, TestDataAnswer)
           o == SetAttr(add_message(run[r].obj, Msg("assistant", DATA_COLLECTION,
                                                    "test_data", <<"run", r>>)),
                        "context", ContextData(entries))
           a == Emit([After(r, o) EXCEPT !.ctx = entries],
                     <<StreamEvent("stage_complete", DATA_COLLECTION)>>)
       IN DbCommit(r, o, Stage3Begin(r, a))

\* lines 245-251 and 233-243: _collect_from_datasource returns (it catches
\* every connector exception), the outcome message is appended and
\* committed; then the next turn of the loop (check, progress event, call)
\* or its end
Collect(r) ==
    /\ run[r].pc = "collect"
    /\ \E src \in env.outcomes :
        LET out == collect_from_datasource(src[1], src[2], TestDataAnswer)
            o == add_message(run[r].obj,
                    [Msg("assistant", DATA_COLLECTION, "collected", <<"run", r>>)
                        EXCEPT !.ds = run[r].which[run[r].i]])
            a == [After(r, o) EXCEPT
                    !.ctx = Append(@, [ds |-> ToString(run[r].which[run[r].i]),
                                       status |-> out.status,
                                       out |-> out])]
        IN IF out.status = "raised"
           THEN Local(r, Raise(r, run[r].obj))
           ELSE DbCommit(r, o,
                  IF run[r].i < run[r].ds
                  THEN CheckCancelled(r, a,
                         Emit([a EXCEPT !.i = @ + 1],
                              <<StreamEvent("stage_progress", DATA_COLLECTION)>>))
                  ELSE Goto(a, "s2_ctx"))

\* context.collection_status: source -> status
StatusMap(ctx) == [k \in 1..Len(ctx) |-> [ds |-> ctx[k].ds, status |-> ctx[k].status]]

\* lines 254-275: the context is saved, the check and the start of stage 3
Stage2Context(r) ==
    /\ run[r].pc = "s2_ctx"
    /\ LET o == SetAttr(run[r].obj, "context", ContextData(StatusMap(run[r].ctx)))
           a == Emit(After(r, o), <<StreamEvent("stage_complete", DATA_COLLECTION)>>)
       IN DbCommit(r, o, Stage3Begin(r, a))

\* line 277
Stage3Status(r) ==
    /\ run[r].pc = "s3_status"
    /\ LET o == update_session_status(run[r].obj, LLM_ANALYSIS, LLM_ANALYSIS)
       IN DbCommit(r, o, Goto(After(r, o), "s3_msg"))

\* lines 278-293: the message, its commit, the progress event and the call
\* of the oracle
Stage3Message(r) ==
    /\ run[r].pc = "s3_msg"
    /\ LET o == add_message(run[r].obj, Msg("assistant", LLM_ANALYSIS, "thinking",
                                            <<"run", r>>))
       IN DbCommit(r, o, Emit(Goto(After(r, o), "analyze"),
                              <<StreamEvent("stage_progress", LLM_ANALYSIS)>>))

\* the six message events carrying the stage before theirs
VerdictEventsOfStage2 == [k \in 1..6 |-> StreamEvent("message", DATA_COLLECTION)]

\* the six message events of lines 304-343
VerdictEvents == [k \in 1..6 |-> StreamEvent("message", LLM_ANALYSIS)]

\* lines 289-346: the oracle answers; an exception of the call would enter
\* the except clause of line 367
Analyze(r) ==
    /\ run[r].pc = "analyze"
    /\ \E v \in env.verdicts :
          LET result == analyze_alert(v)
          IN Local(r,
               IF result = "raised"
               THEN Raise(r, run[r].obj)
               ELSE CheckCancelled(r, run[r],
                      Emit([run[r] EXCEPT
                              !.pc = "s3_commit",
                              !.obj = add_message(SetAttr(@, "result", result),
                                         Msg("assistant", LLM_ANALYSIS, "root_cause",
                                             <<"run", r>>))],
                           VerdictEvents)))

\* lines 348-354
Stage3Commit(r) ==
    /\ run[r].pc = "s3_commit"
    /\ DbCommit(r, run[r].obj,
                Goto(Emit(After(r, run[r].obj),
                          <<StreamEvent("stage_complete", LLM_ANALYSIS)>>),
                     "done_status"))

\* line 357
CompleteStatus(r) ==
    /\ run[r].pc = "done_status"
    /\ LET o == update_session_status(run[r].obj, COMPLETED, None)
       IN DbCommit(r, o, Goto(After(r, o), "done_msg"))

\* lines 358-365
CompleteMessage(r) ==
    /\ run[r].pc = "done_msg"
    /\ LET o == add_message(run[r].obj, Msg("assistant", COMPLETED, "completed",
                                            <<"run", r>>))
       IN DbCommit(r, o, Goto(Emit(After(r, o), <<EvDone>>), "finally"))

\* An exception leaves the generator: the finally clause runs and the
\* except clause of the endpoint's event_generator (api, lines 97-100)
\* reports it as an error event.
Escape(r) ==
    /\ active' = UnregisterActive(run[r].sid)
    /\ cancelled' = UnregisterCancelled(run[r].sid)
    /\ run' = [run EXCEPT ![r] = Exited(Emit([@ EXCEPT !.fault = TRUE], <<EvError>>))]
    /\ UNCHANGED store

\* "await db.commit()" inside the except clause of stream_analysis
HandlerCommit(r, o, next) ==
    /\ \/ /\ store' = [store EXCEPT ![run[r].sid] = Flush(@, o)]
          /\ run' = [run EXCEPT ![r] = next]
          /\ UNCHANGED <<active, cancelled>>
       \/ /\ env.faults
          /\ Escape(r)
    /\ UNCHANGED <<cancel, nRuns, nCancels, accBefore, env, cc, denied, llm, intents, tickets>>

\* line 368
ExceptStatus(r) ==
    /\ run[r].pc = "except"
    /\ LET o == update_session_status(run[r].obj, ERROR, None)
       IN HandlerCommit(r, o, Goto(After(r, o), "except_msg"))

\* lines 369-375
ExceptMessage(r) ==
    /\ run[r].pc = "except_msg"
    /\ LET o == add_message(run[r].obj, Msg("system", ERROR, "error", <<"run", r>>))
       IN HandlerCommit(r, o, Goto(Emit(After(r, o), <<EvError>>), "finally"))

\* the finally clause discarding the id from the active set alone
FinallyActiveOnly(r) ==
    /\ run[r].pc = "finally"
    /\ active' = UnregisterActive(run[r].sid)
    /\ run' = [run EXCEPT ![r] = Exited(@)]
    /\ UNCHANGED <<cancelled, store, cancel, nRuns, nCancels, accBefore, env, cc,
                   denied, llm, intents, tickets>>

\* lines 377-379 and 729-731
Finally(r) ==
    /\ run[r].pc = "finally"
    /\ active' = UnregisterActive(run[r].sid)
    /\ cancelled' = UnregisterCancelled(run[r].sid)
    /\ run' = [run EXCEPT ![r] = Exited(@)]
    /\ UNCHANGED <<store, cancel, nRuns, nCancels, accBefore, env, cc, denied, llm, intents, tickets>>

\* event_generator reads the session and enters continue_analysis,
\* lines 672-676
ContinueBegin(r) ==
    /\ run[r].pc = "gen_load"
    /\ FollowUp(r)
    /\ active' = Register(run[r].sid)
    /\ run' = [run EXCEPT ![r] =
                 [@ EXCEPT !.pc = "f_commit",
                           !.obj = add_message(get_session_by_id(store[run[r].sid]),
                                       Msg("user", None, "follow_up", <<"run", r>>))]]
    /\ UNCHANGED <<cancelled, store, cancel, nRuns, nCancels, accBefore, env, cc, denied, llm, intents, tickets>>

\* lines 677-701: the commit, the start event and the call of the oracle
ContinueCommit(r) ==
    /\ run[r].pc = "f_commit"
    /\ DbCommit(r, run[r].obj,
                Emit(Goto(After(r, run[r].obj), "f_analyze"),
                     <<StreamEvent("stage_start", "follow_up")>>))

\* The answer of a follow-up stored as the verdict of the session.
follow_up_record_as_verdict(o, result, src) ==
    SetAttr(add_message(o, Msg("assistant", "follow_up", result, src)),
            "result", "follow_up_result")

\* lines 706-714: the answer of a follow-up is appended to the
\* conversation log, the result it was taken from being its data
follow_up_record(o, result, src) ==
    add_message(o, Msg("assistant", "follow_up", result, src))

\* lines 697-714: the oracle answers
ContinueAnalyze(r) ==
    /\ run[r].pc = "f_analyze"
    /\ \E v \in Verdicts :
          LET result == analyze_alert(v)
          IN Local(r,
               IF result = "raised"
               THEN Raise(r, run[r].obj)
               ELSE CheckCancelled(r, run[r],
                      Emit([run[r] EXCEPT
                              !.pc = "f_commit2",
                              !.obj = follow_up_record(@, result, <<"run", r>>)],
                           <<StreamEvent("message", "follow_up")>>)))

\* lines 716-721
ContinueDone(r) ==
    /\ run[r].pc = "f_commit2"
    /\ DbCommit(r, run[r].obj, Goto(Emit(After(r, run[r].obj), <<EvDone>>), "finally"))

\* ------------------------------------------------------- collect_context
\* The records one source contributes, in the order they were returned in.
Records(k, from) == <<[src |-> k, n |-> 1, from |-> from],
                      [src |-> k, n |-> 2, from |-> from]>>

\* What the steps of collect_context leave alone.
Streaming ==
    <<active, cancelled, store, run, cancel, nRuns, nCancels, accBefore, env, denied,
      llm, intents, tickets>>

\* gather returning as soon as one task has settled
AnySettled(task) == \E k \in 1..Len(task) : task[k].pc = "done"

\* "await asyncio.gather(*tasks, return_exceptions=True)" returns: every
\* task has settled
AllSettled(task) == \A k \in 1..Len(task) : task[k].pc = "done"

\* lines 599-629 from the test of context.logs on: the record c goes on to
\* ask for test logs, for test metrics, or returns
AfterLogs(c) ==
    IF c.metrics = <<>>
    THEN [c EXCEPT !.pc = "test_metrics",
                   !.calls = Append(@, [kind |-> "metrics", query |-> None])]
    ELSE [c EXCEPT !.pc = "returned"]

AfterGather(c) ==
    IF c.logs = <<>>
    THEN [c EXCEPT !.pc = "test_logs",
                   !.calls = Append(@, [kind |-> "logs", query |-> "keywords"])]
    ELSE AfterLogs(c)

\* lines 583-597: _get_datasources answers with n configurations; with
\* some, one task per datasource is created and gather starts them all:
\* each runs up to the query of its connector
collect_context ==
    /\ env.name = "legacy"
    /\ cc.pc = "idle"
    /\ \E n \in env.ds : \E kinds \in [1..n -> SourceKinds] :
          cc' = IF n = 0
                THEN AfterGather([cc EXCEPT !.pc = "gather"])
                ELSE [cc EXCEPT !.pc = "gather", !.kinds = kinds,
                                !.task = [k \in 1..n |-> [pc |-> "query", conn |-> None]]]
    /\ UNCHANGED Streaming

\* The task of datasource k with outcome out extends the context: lines
\* 477-491, 514-520, 528-537
Settle(c, k, out) ==
    LET recs == IF out.records = "none" THEN <<>> ELSE Records(k, out.records)
    IN [c EXCEPT !.task[k] = [pc |-> "done", conn |-> out.conn],
                 !.status = IF out.status = "raised" THEN @
                            ELSE Append(@, [ds |-> ToString(k), status |-> out.status]),
                 !.logs = IF out.kind = "logs" THEN @ \o recs ELSE @,
                 !.metrics = IF out.kind = "metrics" THEN @ \o recs ELSE @]

\* _collect_from_datasource, task k: the connector answers; with records
\* the task ends, else it asks the test data service
CollectQuery(k) ==
    /\ cc.pc = "gather"
    /\ k \in 1..Len(cc.task)
    /\ cc.task[k].pc = "query"
    /\ \E conn \in {src[2] : src \in env.outcomes} :
          LET out == collect_from_datasource(cc.kinds[k], conn, TestDataAnswer)
          IN cc' = IF out.asked
                   THEN [cc EXCEPT !.task[k] = [pc |-> "fallback", conn |-> conn],
                                   !.calls = Append(@, [kind |-> out.kind,
                                                        query |-> out.query])]
                   ELSE Settle(cc, k, out)
    /\ UNCHANGED Streaming

\* _collect_from_datasource, task k: the test data service answers
CollectFallback(k) ==
    /\ cc.pc = "gather"
    /\ k \in 1..Len(cc.task)
    /\ cc.task[k].pc = "fallback"
    /\ cc' = Settle(cc, k, collect_from_datasource(cc.kinds[k], cc.task[k].conn,
                                                   TestDataAnswer))
    /\ UNCHANGED Streaming

\* line 597 returns
GatherReturns ==
    /\ cc.pc = "gather"
    /\ cc.task # <<>>
    /\ AllSettled(cc.task)
    /\ cc' = AfterGather(cc)
    /\ UNCHANGED Streaming

\* lines 601-612: get_test_logs answers
CollectTestLogs ==
    /\ cc.pc = "test_logs"
    /\ cc' = AfterLogs([cc EXCEPT
                 !.logs = IF TestDataAnswer = "data" THEN Records(0, "fallback") ELSE @,
                 !.status = @ \o TestEntries(TestDataAnswer, "nothing")])
    /\ UNCHANGED Streaming

\* lines 616-629: get_test_metrics answers, collect_context returns
CollectTestMetrics ==
    /\ cc.pc = "test_metrics"
    /\ cc' = [cc EXCEPT
                 !.pc = "returned",
                 !.metrics = IF TestDataAnswer = "data" THEN Records(0, "fallback") ELSE @,
                 !.status = @ \o TestEntries("nothing", TestDataAnswer)]
    /\ UNCHANGED Streaming

\* ------------------------------------------------------- analyze_alert
\* lines 118-139: analyze_alert is called and the oracle responds
llm_call ==
    /\ env.name = "oracle"
    /\ llm.pc = "idle"
    /\ \E resp \in Responses : llm' = [llm EXCEPT !.pc = "called", !.response = resp]
    /\ UNCHANGED <<active, cancelled, store, run, cancel, nRuns, nCancels, accBefore,
                   env, cc, denied, intents, tickets>>

\* lines 141-180: the response is turned into the result
llm_return ==
    /\ llm.pc = "called"
    /\ llm' = [llm EXCEPT !.pc = "returned",
                          !.result = analyze_with_openai(llm.response)]
    /\ UNCHANGED <<active, cancelled, store, run, cancel, nRuns, nCancels, accBefore,
                   env, cc, denied, intents, tickets>>

\* --------------------------------------------------- _understand_intent
\* line 146: stream_analysis, serving session sid, calls _understand_intent,
\* which runs to its return without an await
understand_intent_call ==
    /\ env.name = "intent"
    /\ Len(intents) < MaxCalls
    /\ \E sid \in IntentSessions :
       \E text \in (IF intents = <<>> THEN AlertTexts
                    ELSE {intents[1].text} \cup OtherTexts) :
          intents' = Append(intents, [sid |-> sid, text |-> text,
                                      result |-> UnderstandIntent(text)])
    /\ UNCHANGED <<active, cancelled, store, run, cancel, nRuns, nCancels, accBefore,
                   env, cc, denied, llm, tickets>>

\* ------------------------------------------------------- create_ticket
\* lines 44-56: the query of generate_ticket_no is answered, the ticket is
\* built with the number and its commit is awaited
create_ticket(c) ==
    /\ env.name = "tickets"
    /\ tickets.call[c].pc = "idle"
    /\ tickets' = [tickets EXCEPT
                     !.call[c] = [pc |-> "commit", outcome |-> None,
                                  no |-> generate_ticket_no(tickets.table, Today)]]
    /\ UNCHANGED <<active, cancelled, store, run, cancel, nRuns, nCancels, accBefore,
                   env, cc, denied, llm, intents>>

\* lines 56-58: the INSERT is made; ticket_no is the primary key of the
\* table, and a number the table holds is refused (IntegrityError)
create_ticket_commit(c) ==
    /\ tickets.call[c].pc = "commit"
    /\ tickets' = IF tickets.call[c].no \in tickets.table
                  THEN [tickets EXCEPT !.call[c].pc = "done",
                                       !.call[c].outcome = "integrity_error"]
                  ELSE [tickets EXCEPT !.call[c].pc = "done",
                                       !.call[c].outcome = "stored",
                                       !.table = @ \cup {tickets.call[c].no}]
    /\ UNCHANGED <<active, cancelled, store, run, cancel, nRuns, nCancels, accBefore,
                   env, cc, denied, llm, intents>>

\* ------------------------------------------------------------------ Next
Next ==
    \/ \E s \in env.sessions : create_analysis_stream(s)
    \/ \E s \in env.sessions : reanalyze(s)
    \/ \E s \in env.sessions : continue_request(s)
    \/ \E s \in env.sessions : cancel_analysis(s)
    \/ \E s \in env.sessions : get_analysis(s)
    \/ \E s \in env.sessions : delete_analysis(s)
    \/ \E c \in CancelIds : CancelCommit(c)
    \/ \E r \in RunIds : StreamUserMsg(r)
    \/ \E r \in RunIds : ReanalyzeReset(r)
    \/ \E r \in RunIds : StreamBegin(r)
    \/ \E r \in RunIds : Stage1Status(r)
    \/ \E r \in RunIds : Stage1Commit(r)
    \/ \E r \in RunIds : Stage2Status(r)
    \/ \E r \in RunIds : TestData(r)
    \/ \E r \in RunIds : Collect(r)
    \/ \E r \in RunIds : Stage2Context(r)
    \/ \E r \in RunIds : Stage3Status(r)
    \/ \E r \in RunIds : Stage3Message(r)
    \/ \E r \in RunIds : Analyze(r)
    \/ \E r \in RunIds : Stage3Commit(r)
    \/ \E r \in RunIds : CompleteStatus(r)
    \/ \E r \in RunIds : CompleteMessage(r)
    \/ \E r \in RunIds : ExceptStatus(r)
    \/ \E r \in RunIds : ExceptMessage(r)
    \/ \E r \in RunIds : Finally(r)
    \/ \E r \in RunIds : ContinueBegin(r)
    \/ \E r \in RunIds : ContinueCommit(r)
    \/ \E r \in RunIds : ContinueAnalyze(r)
    \/ \E r \in RunIds : ContinueDone(r)
    \/ collect_context
    \/ \E k \in 1..MaxDs : CollectQuery(k)
    \/ \E k \in 1..MaxDs : CollectFallback(k)
    \/ GatherReturns
    \/ CollectTestLogs
    \/ CollectTestMetrics
    \/ llm_call
    \/ llm_return
    \/ understand_intent_call
    \/ \E c \in CreateIds : create_ticket(c)
    \/ \E c \in CreateIds : create_ticket_commit(c)

Spec == Init /\ [][Next]_vars

\* ------------------------------------------------------------ the claims
Count(evs, e) == Cardinality({k \in 1..Len(evs) : evs[k] = e})
Starts(evs) == Cardinality({k \in 1..Len(evs) : evs[k].event = "stage_start"})
LastEvent(evs) == evs[Len(evs)]
IsPrefix(p, q) == Len(p) <= Len(q) /\ SubSeq(q, 1, Len(p)) = p
RunSteps(r) == run'[r] # run[r]

\* The automaton of a successful stream: 0, 2, 4 wait for the stage_start of
\* stage 1, 2, 3; 1, 3, 5 are inside the stage; 6 waits for done; 7 is the
\* end; 8 rejects.
PhaseAfter(ph, e) ==
    IF ph \in {0, 2, 4}
    THEN (IF e = StreamEvent("stage_start", Stages[(ph \div 2) + 1]) THEN ph + 1 ELSE 8)
    ELSE IF ph \in {1, 3, 5}
    THEN (IF e = StreamEvent("stage_complete", Stages[(ph + 1) \div 2]) THEN ph + 1
          ELSE IF e = StreamEvent("stage_progress", Stages[(ph + 1) \div 2]) THEN ph
          ELSE IF ph = 5 /\ e = StreamEvent("message", LLM_ANALYSIS) THEN ph
          ELSE 8)
    ELSE IF ph = 6 /\ e = EvDone THEN 7
    ELSE 8

RECURSIVE PhaseOf(_, _, _)
PhaseOf(evs, k, ph) ==
    IF k > Len(evs) THEN ph ELSE PhaseOf(evs, k + 1, PhaseAfter(ph, evs[k]))

SuccessfulStream(evs) == PhaseOf(evs, 1, 0) = 7

\* C1: a run of stream_analysis that has exited without a cancelled and
\* without an error event has emitted exactly stage_start, progress events,
\* stage_complete of intent_understanding, then of data_collection, then
\* (with message events) of llm_analysis, then done.
C1_StageOrder ==
    \A r \in RunIds :
        (Pipeline(r) /\ run[r].pc = "exited"
            /\ ~Has(run[r].events, EvCancelled) /\ ~Has(run[r].events, EvError))
        => SuccessfulStream(run[r].events)

\* a successful run over two datasources has been observed
C1_Witness ==
    \E r \in RunIds :
        /\ Pipeline(r) /\ run[r].pc = "exited"
        /\ LastEvent(run[r].events) = EvDone
        /\ Count(run[r].events, StreamEvent("stage_progress", DATA_COLLECTION)) = 2

CancelsAnswered == \A c \in CancelIds : cancel[c].pc \in {"idle", "done"}

\* C2: a run that was the only one of its session, had a stage ahead when a
\* cancel request was accepted, met no fault and has exited has emitted one
\* cancelled event, as its last event, and once the cancel request is
\* answered the stored status is cancelled.
C2_CancelBeforeStage ==
    \A r \in accBefore :
        (nRuns = 1 /\ run[r].pc = "exited" /\ ~Has(run[r].events, EvError))
        => /\ Count(run[r].events, EvCancelled) = 1
           /\ LastEvent(run[r].events) = EvCancelled
           /\ CancelsAnswered => store[run[r].sid].status = CANCELLED

\* C3: at most one run is in progress for a session id.
C3_AtMostOneRun ==
    \A s \in SessionIds :
        Cardinality({r \in RunIds : InProgress(r) /\ run[r].sid = s}) <= 1

\* The place of a status in the order of the pipeline.
Rank(st) ==
    CASE st = PENDING -> 0
      [] st = INTENT_UNDERSTANDING -> 1
      [] st = DATA_COLLECTION -> 2
      [] st = LLM_ANALYSIS -> 3
      [] OTHER -> 4

ResetStep == \E r \in RunIds : run[r].pc = "re_reset" /\ run'[r].pc = "gen_load"

\* C4: every change of a stored status moves it strictly forward in the
\* order pending, intent_understanding, data_collection, llm_analysis,
\* terminal, unless it is the reset made by reanalyze.
C4_StatusForward ==
    [][\A s \in SessionIds :
          (store[s] # NoSession /\ store'[s].status # store[s].status)
          => (ResetStep \/ Rank(store'[s].status) > Rank(store[s].status))]_vars

\* C5: while one streaming request has been issued for the session, every
\* stored value of the conversation log extends the value stored before it.
C5_AppendOnly ==
    [][\A s \in SessionIds :
          (store[s] # NoSession /\ nRuns <= 1)
          => IsPrefix(store[s].messages, store'[s].messages)]_vars

RegistryOwned ==
    \A s \in active \cup cancelled : \E r \in RunIds : InProgress(r) /\ run[r].sid = s

ExitClears ==
    \A r \in RunIds :
        (run[r].pc # "exited" /\ run'[r].pc = "exited")
        => (run[r].sid \notin active' /\ run[r].sid \notin cancelled')

\* C6: the step in which a run exits leaves its session id in neither the
\* active nor the cancelled set, and every id in either set belongs to a
\* run that has not exited.
C6_RegistryCleared == [][ExitClears]_vars /\ []RegistryOwned

\* a run has exited by cancellation and another by an error or by done
C6_Witness ==
    /\ \E r \in RunIds : run[r].pc = "exited" /\ LastEvent(run[r].events) = EvCancelled
    /\ \E r \in RunIds : run[r].pc = "exited" /\ LastEvent(run[r].events) \in {EvDone, EvError}
    /\ active = {} /\ cancelled = {}

\* The step of cancel_analysis for session s.
CancelStep(s) == nCancels' = nCancels + 1 /\ cancel'[nCancels + 1].sid = s

InFlight(r) == run[r].pc \in {"collect", "test_data", "analyze", "f_analyze"}

\* C7: a cancel request for an id in the active set is accepted and adds
\* the id to the cancelled set; the active set, every run (its position,
\* its call in flight, its events) and the stored session stay as they are.
C7_CancelMarksOnly ==
    [][\A s \in SessionIds :
          (CancelStep(s) /\ s \in active)
          => /\ cancel'[nCancels + 1].pc = "commit"
             /\ cancelled' = cancelled \cup {s}
             /\ active' = active
             /\ run' = run
             /\ store' = store]_vars

\* a cancel request has been accepted while a connector or an oracle call
\* of the run is in flight
C7_Witness ==
    \E c \in CancelIds, r \in RunIds :
        /\ cancel[c].pc = "commit"
        /\ run[r].sid = cancel[c].sid /\ InFlight(r)
        /\ cancel[c].sid \in cancelled /\ cancel[c].sid \in active

NotActiveFinal ==
    \A c \in CancelIds : cancel[c].resp = "not_active" => cancel[c].pc = "done"

\* C8: a cancel request for an id outside the active set answers
\* not_active, leaves the active set, the cancelled set and the stored
\* session as they are, and has no write pending.
C8_CancelNotActive ==
    /\ [][\A s \in SessionIds :
            (CancelStep(s) /\ s \notin active)
            => /\ cancel'[nCancels + 1].resp = "not_active"
               /\ cancelled' = cancelled
               /\ active' = active
               /\ store' = store]_vars
    /\ []NotActiveFinal

\* a cancel request has been answered not_active for a stored session
C8_Witness ==
    \E c \in CancelIds :
        /\ cancel[c].resp = "not_active"
        /\ store[cancel[c].sid] # NoSession
        /\ cancelled = {}

\* The positions from which a run reaches the beginning of a stage: stage 1
\* (its event, then its status), stage 2, stage 3.
StageBoundary == {"gen_load", "s1_status", "s1_commit", "s2_ctx", "test_data"}

\* C9: a step that takes a run of stream_analysis to the beginning of a
\* stage while its session is marked cancelled, and that no storage fault
\* cut short, emits no stage_start, leaves the stored status as it is,
\* emits one cancelled event and ends the run.
C9_CheckPrecedesStage ==
    [][\A r \in RunIds :
          (Pipeline(r) /\ run[r].pc \in StageBoundary /\ Flagged(r)
              /\ RunSteps(r) /\ run'[r].pc # "except")
          => /\ Starts(run'[r].events) = Starts(run[r].events)
             /\ store'[run[r].sid].status = store[run[r].sid].status
             /\ Count(run'[r].events, EvCancelled) = Count(run[r].events, EvCancelled) + 1
             /\ run'[r].pc = "finally"]_vars

\* C10: a step of a run that has emitted the cancelled event is its exit:
\* it emits nothing, starts no call and writes nothing to the store.
C10_CancelTerminal ==
    [][\A r \in RunIds :
          (Has(run[r].events, EvCancelled) /\ RunSteps(r))
          => /\ run'[r].events = run[r].events
             /\ run'[r].pc = "exited"
             /\ store' = store]_vars

\* a run that observed the flag during its data collection has exited
C10_Witness ==
    \E r \in RunIds :
        /\ run[r].pc = "exited"
        /\ Has(run[r].events, EvCancelled)
        /\ Has(run[r].events, StreamEvent("stage_progress", DATA_COLLECTION))

\* The collection-outcome messages of run r in the object it holds.
OutcomeMessages(o, r) ==
    {k \in 1..Len(o.cur.messages) :
        /\ o.cur.messages[k].tag = "collected"
        /\ o.cur.messages[k].src = <<"run", r>>}

\* C11: while the session is marked cancelled a run launches no connector
\* query: the step that ends the query of source i in flight records the
\* outcome of source i (status entry and message), then ends the run with
\* nothing queried or recorded for a later source; the loop is not entered
\* when the mark is found before its first iteration.
C11_LoopCheck ==
    [][\A r \in RunIds :
          (Pipeline(r) /\ Flagged(r) /\ RunSteps(r) /\ run'[r].pc # "except")
          => /\ run'[r].pc # "collect"
             /\ run[r].pc = "collect"
                => /\ Len(run'[r].ctx) = run[r].i
                   /\ run'[r].ctx[run[r].i].ds = ToString(run[r].i)
                   /\ Cardinality(OutcomeMessages(run'[r].obj, r)) = run[r].i
                   /\ run[r].i < run[r].ds => run'[r].pc = "finally"
             /\ (run[r].pc = "s2_status" /\ run'[r].pc # "test_data")
                => /\ run'[r].pc = "finally"
                   /\ run'[r].ctx = <<>>
                   /\ OutcomeMessages(run'[r].obj, r) = {}]_vars

\* a run with two configured sources ended by the check between the first
\* and the second: one queried, one outcome recorded
C11_Witness ==
    \E r \in RunIds :
        /\ run[r].pc = "finally" /\ LastEvent(run[r].events) = EvCancelled
        /\ run[r].ds = 2 /\ run[r].i = 1
        /\ Len(run[r].ctx) = 1
        /\ Cardinality(OutcomeMessages(run[r].obj, r)) = 1

C13_PipelineFault ==
    \A r \in RunIds :
        (Pipeline(r) /\ run[r].pc = "exited" /\ run[r].fault
            /\ nRuns = 1 /\ nCancels = 0)
        => /\ store[run[r].sid].status = ERROR
           /\ LET log == store[run[r].sid].messages
              IN /\ log # <<>>
                 /\ log[Len(log)].role = "system"
                 /\ log[Len(log)].tag = "error"
           /\ Count(run[r].events, EvError) = 1
           /\ LastEvent(run[r].events) = EvError
           /\ run[r].sid \notin active \cup cancelled

\* The run is past its data collection and still holds what it collected.
Collected(r) ==
    /\ Pipeline(r)
    /\ run[r].ds >= 1
    /\ Has(run[r].events, StreamEvent("stage_complete", DATA_COLLECTION))

\* C14: whatever the connectors of its sources did, a run that met no
\* storage fault and no cancellation never enters its except clause during
\* the collection: it reaches stage_complete(data_collection) holding one
\* collection-status entry for every configured source, in their order,
\* and, when it was the only request on its session, it exits without an
\* error event and without the stored status error.
C14_ConnectorFault ==
    /\ [][\A r \in RunIds :
            (run[r].pc = "collect" /\ RunSteps(r) /\ ~run'[r].fault)
            => /\ run'[r].pc \in {"collect", "s2_ctx", "finally"}
               /\ Len(run'[r].ctx) = run[r].i
               /\ run'[r].ctx[run[r].i].status \in CollectOutcomes]_vars
    /\ [](\A r \in RunIds :
            Collected(r)
            => /\ Len(run[r].ctx) = run[r].ds
               /\ \A k \in 1..run[r].ds :
                    /\ run[r].ctx[k].ds = ToString(k)
                    /\ run[r].ctx[k].status \in CollectOutcomes)
    /\ [](\A r \in RunIds :
            (Pipeline(r) /\ run[r].pc = "exited" /\ ~run[r].fault
                /\ nRuns = 1 /\ nCancels = 0)
            => /\ Has(run[r].events, StreamEvent("stage_complete", DATA_COLLECTION))
               /\ ~Has(run[r].events, EvError)
               /\ store[run[r].sid].status # ERROR)

\* a run has completed its data collection with a source whose connector
\* raised and a source whose connector returned nothing
C14_Witness ==
    \E r \in RunIds :
        /\ Collected(r) /\ run[r].ds = 2
        /\ run[r].ctx[1].out.conn = "raises"
        /\ run[r].ctx[2].out.conn = "empty"

\* C15: for every source a run has collected from: when its connector
\* returned nothing or raised, the test data service was asked with the
\* query the connector was given, and its data, if any, are what the
\* context holds for the source, under a status that names the test data;
\* the status "not found" stands only where neither returned anything;
\* when the connector returned records the test data service was not asked
\* and the context holds the connector's records.
C15_Fallback ==
    \A r \in RunIds :
        run[r].ds >= 1 =>
        \A k \in 1..Len(run[r].ctx) :
            LET o == run[r].ctx[k].out
            IN /\ o.conn \in {"empty", "raises"}
                  => /\ o.asked
                     /\ o.query = "query_str"
                     /\ o.records = "fallback"
                     /\ o.status \in {"test_data", "failed_test_data"}
               /\ o.status = "not_found" => o.records = "none"
               /\ o.conn = "records"
                  => /\ ~o.asked
                     /\ o.records = "connector"
                     /\ o.status = "collected"

\* C16: with no datasource resolved, collect_context queries no connector,
\* asks the test data service once for logs, with the keywords, and once
\* for metrics, and returns a context that holds both kinds of data under
\* the status keys test_logs and test_metrics; a run of stream_analysis
\* without datasources never queries a connector and the step in which its
\* test data arrive stores a context with the same two keys.
C16_NoDatasource ==
    /\ [](cc.pc = "returned" /\ cc.kinds = <<>>
          => /\ cc.task = <<>>
             /\ cc.calls = <<[kind |-> "logs", query |-> "keywords"],
                             [kind |-> "metrics", query |-> None]>>
             /\ cc.logs # <<>> /\ cc.metrics # <<>>
             /\ cc.status = <<[ds |-> "test_logs", status |-> "test_data"],
                              [ds |-> "test_metrics", status |-> "test_data"]>>)
    /\ [](\A r \in RunIds : run[r].pc = "collect" => run[r].ds >= 1)
    /\ [][\A r \in RunIds :
            (run[r].pc = "test_data" /\ RunSteps(r) /\ ~run'[r].fault)
            => /\ run[r].ds = 0
               /\ store'[run[r].sid].context =
                     ContextData(<<[ds |-> "test_logs", status |-> "test_data"],
                                   [ds |-> "test_metrics", status |-> "test_data"]>>)
               /\ Has(run'[r].events, StreamEvent("stage_complete", DATA_COLLECTION))]_vars

\* collect_context has returned without a datasource
C16_Witness ==
    /\ cc.pc = "returned" /\ cc.kinds = <<>>
    /\ Len(cc.calls) = 2 /\ Len(cc.status) = 2

\* C17: the queries of the datasources of a run are launched together:
\* while the query of one datasource is in flight, the query of every
\* datasource of the run has been launched (it is in flight or has
\* settled), in stream_analysis as in collect_context.
C17_LaunchedTogether ==
    /\ \A r \in RunIds :
          (Pipeline(r) /\ run[r].pc = "collect") => run[r].i = run[r].ds
    /\ cc.pc = "gather" => \A k \in 1..Len(cc.task) : cc.task[k].pc # "idle"

\* C18: stage 2 delivers no partial result. A step of a run that emits
\* stage_complete(data_collection) or stores the context is taken with an
\* entry for every configured source, a run that has emitted the event
\* holds one settled entry per source, and collect_context is past its
\* gather only when every one of its tasks has settled.
C18_NoPartialResult ==
    /\ [][\A r \in RunIds :
            (/\ Pipeline(r)
             /\ ~Has(run[r].events, StreamEvent("stage_complete", DATA_COLLECTION))
             /\ Has(run'[r].events, StreamEvent("stage_complete", DATA_COLLECTION)))
            => /\ run[r].pc \in {"s2_ctx", "test_data"}
               /\ run[r].pc = "s2_ctx" => run[r].ds >= 1 /\ run[r].i = run[r].ds
               /\ run[r].pc = "test_data" => run[r].ds = 0
               /\ Len(run[r].ctx) = run[r].ds
               /\ \A k \in 1..run[r].ds : run[r].ctx[k].status \in CollectOutcomes]_vars
    /\ [][\A r \in RunIds :
            (/\ Pipeline(r)
             /\ RunSteps(r)
             /\ store'[run[r].sid].context # store[run[r].sid].context)
            => /\ store'[run[r].sid].context.present
               /\ Len(store'[run[r].sid].context.collection_status)
                     = IF run[r].ds = 0 THEN 2 ELSE run[r].ds
               /\ Len(run[r].ctx) = run[r].ds]_vars
    /\ [](\A r \in RunIds :
            Collected(r) => /\ Len(run[r].ctx) = run[r].ds
                            /\ run[r].pc \notin {"collect", "s2_status"})
    /\ [](cc.pc \in {"test_logs", "test_metrics", "returned"}
            => /\ Len(cc.task) = Len(cc.kinds)
               /\ \A k \in 1..Len(cc.kinds) : cc.task[k].pc = "done")

\* collect_context has returned from two sources, the connector of the
\* first having raised
C18_Witness ==
    /\ cc.pc = "returned"
    /\ Len(cc.task) = 2
    /\ cc.task[1].conn = "raises"
    /\ cc.task[2].pc = "done"

\* The records recs are in the insertion order of their sources, those of
\* one source in the order they were returned in.
InsertionOrder(recs) ==
    \A p, q \in 1..Len(recs) :
        p < q => \/ recs[p].src < recs[q].src
                 \/ recs[p].src = recs[q].src /\ recs[p].n < recs[q].n

\* C19: the merged context lists the records in the insertion order of the
\* configurations, those of one source in the order the connector returned
\* them in, whatever order the queries complete in: the entries a run of
\* stream_analysis holds follow the order of its sources, and the logs and
\* the metrics of collect_context are in insertion order.
C19_MergeOrder ==
    /\ \A r \in RunIds :
          Pipeline(r) => \A k \in 1..Len(run[r].ctx) :
                            run[r].ctx[k].ds \in {ToString(k), "test_logs", "test_metrics"}
    /\ InsertionOrder(cc.logs)
    /\ InsertionOrder(cc.metrics)

\* C20: a continuation that was not cancelled and did not fail has run
\* no stage of the pipeline (it holds no collected entry and emitted no
\* event of the stages 1 to 3), and the events it emitted are one message
\* event followed by one done event.
C20_Continuation ==
    \A r \in RunIds :
        (/\ FollowUp(r)
         /\ run[r].pc = "exited"
         /\ ~run[r].fault
         /\ ~Has(run[r].events, EvCancelled)
         /\ ~Has(run[r].events, EvError))
        => /\ run[r].ctx = <<>>
           /\ \A k \in 1..Len(run[r].events) : run[r].events[k].stage \notin {INTENT_UNDERSTANDING, DATA_COLLECTION,
                                             LLM_ANALYSIS}
           /\ run[r].events = <<StreamEvent("message", "follow_up"), EvDone>>

\* C21: a step of a continuation leaves the stored verdict, intent and
\* context of its session as they are, whatever the oracle answered and
\* whether the continuation completes, is cancelled or fails; the commit
\* that records the answer stores it as the last message of the log.
C21_ContinuationFrame ==
    [][\A r \in RunIds :
         (FollowUp(r) /\ RunSteps(r))
         => /\ store'[run[r].sid].result = store[run[r].sid].result
            /\ store'[run[r].sid].intent = store[run[r].sid].intent
            /\ store'[run[r].sid].context = store[run[r].sid].context
            /\ (run[r].pc = "f_commit2" /\ run'[r].pc = "finally"
                  /\ Has(run'[r].events, EvDone))
               => LET log == store'[run[r].sid].messages
                  IN /\ log # <<>>
                     /\ log[Len(log)].stage = "follow_up"
                     /\ log[Len(log)].src = <<"run", r>>]_vars

\* a continuation has recorded its answer, taken from text of the oracle
\* that was no JSON, on a session that holds a verdict
C21_Witness ==
    \E r \in RunIds :
        /\ FollowUp(r)
        /\ run[r].pc = "exited"
        /\ Has(run[r].events, EvDone)
        /\ store[run[r].sid].result = "parsed_result"
        /\ LET log == store[run[r].sid].messages
           IN log # <<>> /\ log[Len(log)].tag = "raw_text_result"

\* The reanalyze request r has committed its reset and the run it starts
\* has not stored a verdict yet.
ResetPending(r) ==
    /\ run[r].kind = "reanalyze"
    /\ run[r].pc \in {"gen_load", "s1_status", "s1_commit", "s2_status", "test_data",
                      "collect", "s2_ctx", "s3_status", "s3_msg", "analyze"}

\* C22: the reset of reanalyze leaves the stored verdict empty and the
\* stored status pending, and the log it leaves is the log it found with
\* the one marker message appended; from the reset until stage 3 of the
\* run it starts stores a verdict the stored verdict is empty; and the run,
\* when it ends with done, has gone through the three stages.
C22_Reanalyze ==
    /\ [][\A r \in RunIds :
            (run[r].pc = "re_reset" /\ run'[r].pc = "gen_load")
            => /\ store'[run[r].sid].result = None
               /\ store'[run[r].sid].status = PENDING
               /\ store'[run[r].sid].messages
                    = Append(store[run[r].sid].messages,
                             Msg("user", None, "reanalyze", <<"run", r>>))]_vars
    /\ [](\A r \in RunIds : ResetPending(r) => store[run[r].sid].result = None)
    /\ [](\A r \in RunIds :
            (run[r].kind = "reanalyze" /\ Has(run[r].events, EvDone))
            => SuccessfulStream(run[r].events))

\* C23: a stored status becomes cancelled or error only in place of a
\* status that is not terminal, and a stored status completed is replaced
\* by nothing but the reset of reanalyze.
C23_TerminalKept ==
    [][\A s \in SessionIds :
          (store[s] # NoSession /\ store'[s].status # store[s].status)
          => /\ store'[s].status \in {CANCELLED, ERROR} => store[s].status \notin Terminal
             /\ store[s].status = COMPLETED => ResetStep]_vars

\* The events of a stage other than its stage_start.
InStage == {"stage_progress", "message", "stage_complete"}

\* C24: in the events of every pipeline run, however it ended, every
\* stage_progress, message and stage_complete event of a stage comes after
\* the stage_start of that stage with nothing but events of that stage in
\* between, every stage has at most one stage_start and at most one
\* stage_complete, and the stage_start of a stage comes after the
\* stage_complete of the stage before it.
C24_StageTriples ==
    \A r \in RunIds :
        Pipeline(r) =>
        LET evs == run[r].events
        IN /\ \A k \in 1..Len(evs) :
                evs[k].event \in InStage
                => \E j \in 1..(k - 1) :
                      /\ evs[j] = StreamEvent("stage_start", evs[k].stage)
                      /\ \A m \in j..k : evs[m].stage = evs[k].stage
           /\ \A n \in 1..3 :
                /\ Count(evs, StreamEvent("stage_start", Stages[n])) <= 1
                /\ Count(evs, StreamEvent("stage_complete", Stages[n])) <= 1
           /\ \A n \in 2..3 : \A k \in 1..Len(evs) :
                evs[k] = StreamEvent("stage_start", Stages[n])
                => \E j \in 1..(k - 1) :
                      evs[j] = StreamEvent("stage_complete", Stages[n - 1])

\* a run failed after the message events of its third stage, before the
\* stage_complete of that stage
C24_Witness ==
    \E r \in RunIds :
        /\ Pipeline(r)
        /\ run[r].pc = "exited"
        /\ Has(run[r].events, StreamEvent("message", LLM_ANALYSIS))
        /\ Has(run[r].events, EvError)
        /\ ~Has(run[r].events, StreamEvent("stage_complete", LLM_ANALYSIS))

\* The existing ones of the ids named, in the order they were named in.
Named(all, ids) ==
    LET exists(id) == \E k \in 1..Len(all) : all[k] = id
    IN SelectSeq(ids, exists)

\* C25: the datasources that stage 2 of a streamed run queries are, when
\* the request named datasource ids, the existing datasources of those ids
\* in the order given and no other, and every configured datasource when
\* the request named none.
C25_SelectedSources ==
    \A r \in RunIds :
        (run[r].kind = "stream" /\ run[r].pc \in {"collect", "s2_ctx", "test_data"})
        => \E n \in env.ds :
              run[r].which = IF run[r].asked.given
                             THEN Named(Configured(n), run[r].asked.ids)
                             ELSE Configured(n)

\* C26: a request for a session that has no row, or whose row belongs to
\* another user, is answered not found or forbidden and makes no other
\* step: the registry, the store, the runs and the cancel requests are as
\* they were.  Hence every run and every cancel request there is was made
\* by the user the row of its session belongs to.
C26_Rejected ==
    /\ [][denied' # denied
          => /\ denied = NoDenial
             /\ denied'.op \in {"cancel", "continue", "reanalyze", "get", "delete"}
             /\ denied'.code = IF store[denied'.sid] = NoSession THEN "not_found"
                               ELSE "forbidden"
             /\ store[denied'.sid] # NoSession => store[denied'.sid].user # denied'.user
             /\ UNCHANGED <<active, cancelled, store, run, cancel, nRuns, nCancels>>]_vars
    /\ [](\A r \in RunIds :
            run[r].kind # "none"
            => store[run[r].sid] # NoSession /\ store[run[r].sid].user = run[r].user)
    /\ [](\A c \in CancelIds :
            cancel[c].pc # "idle"
            => store[cancel[c].sid] # NoSession
               /\ store[cancel[c].sid].user = cancel[c].user)
    /\ [][\A s \in SessionIds :
            (store[s] # NoSession /\ store'[s] # store[s])
            => \/ \E r \in RunIds : run[r].sid = s /\ run[r].user = store[s].user
                                      /\ RunSteps(r)
               \/ \E c \in CancelIds : cancel[c].sid = s /\ cancel[c].user = store[s].user
                                         /\ cancel'[c] # cancel[c]]_vars

\* the cancel request of another user was answered forbidden while a run
\* of the session was in progress
C26_Witness ==
    /\ denied.op = "cancel"
    /\ denied.code = "forbidden"
    /\ denied.user = "other"
    /\ \E r \in RunIds : run[r].sid = denied.sid /\ InProgress(r)
    /\ cancelled = {}

\* C27: while a pipeline run is the only request made on its session,
\* every commit of the run that changes the stored conversation log
\* appends one message to it: each append is stored before the next is
\* made.
C27_OneMessageAtATime ==
    [][\A r \in RunIds :
         (/\ Pipeline(r)
          /\ nRuns = 1 /\ nCancels = 0
          /\ InProgress(r)
          /\ RunSteps(r)
          /\ store'[run[r].sid].messages # store[run[r].sid].messages)
         => /\ Len(store'[run[r].sid].messages) = Len(store[run[r].sid].messages) + 1
            /\ IsPrefix(store[run[r].sid].messages, store'[run[r].sid].messages)]_vars

\* The categories a verdict may carry.
ClosedCategories == {<<"code_issue">>, <<"config_issue">>, <<"resource_bottleneck">>,
                     <<"dependency_failure">>}

\* C28: every result that analyze_alert returns has one of the four
\* categories code_issue, config_issue, resource_bottleneck and
\* dependency_failure, whatever category the JSON of the oracle carries.
C28_ClosedCategory ==
    (llm.pc = "returned" /\ ~llm.result.raised)
    => llm.result.category \in ClosedCategories

\* The response cannot be decoded into an AnalysisResult: it has no
\* content, its content is no JSON or no JSON object, or a field of the
\* object has a type its field of the result does not take.
Undecodable(resp) ==
    \/ resp.how = "no_content"
    \/ /\ resp.how = "answer"
       /\ \/ resp.kind \in {"text", "non_object"}
          \/ /\ resp.kind = "object"
             /\ \/ resp.obj.root_cause.t \in {"num", "null"}
                \/ resp.obj.category.t \in {"num", "null"}
                \/ resp.obj.confidence.t = "str"

C30_FenceTransparent ==
    (/\ llm.pc = "returned"
     /\ llm.response.kind = "object"
     /\ llm.response.wrap \in {"json_fence", "fence"}
     /\ llm.response.obj.root_cause.t = "str"
     /\ llm.response.obj.category.t = "str"
     /\ llm.response.obj.confidence.t = "num")
    => llm.result = analyze_with_openai(
                       Response("answer", Dumps(llm.response.obj), "object",
                                llm.response.obj, "bare"))

TokenBreaks == {Space} \cup Punctuation
TokenAt(text, w, p) ==
    /\ w # <<>>
    /\ p + Len(w) - 1 <= Len(text)
    /\ SubSeq(text, p, p + Len(w) - 1) = w
    /\ \A k \in 1..Len(w) : w[k] \notin TokenBreaks
    /\ p > 1 => text[p - 1] \in TokenBreaks
    /\ p + Len(w) <= Len(text) => text[p + Len(w)] \in TokenBreaks

\* The words kw[k..] are tokens of the text from position p on, in order.
RECURSIVE InOrder(_, _, _, _)
InOrder(text, kw, k, p) ==
    \/ k > Len(kw)
    \/ \E q \in p..Len(text) :
          TokenAt(text, kw[k], q) /\ InOrder(text, kw, k + 1, q + Len(kw[k]))

\* C32: the keywords of an Intent are at most 10, each is a token of the
\* alert text of more than one character whose lower-case form is no
\* stopword, and they stand in the order in which they occur in the text.
C32_Keywords ==
    \A i \in 1..Len(intents) :
        LET kw == intents[i].result.keywords
        IN /\ Len(kw) <= 10
           /\ InOrder(intents[i].text, kw, 1, 1)
           /\ \A k \in 1..Len(kw) :
                 /\ len(kw[k]) > 1
                 /\ [j \in 1..Len(kw[k]) |-> Lower(kw[k][j])] \notin stop_words

\* a text of fourteen words, with a stopword and a word of one character,
\* gave the ten keywords that come first
C32_Witness ==
    \E i \in 1..Len(intents) :
        /\ Len(split(replace_punctuation(intents[i].text))) = 14
        /\ intents[i].text[1] = "The"
        /\ intents[i].result.keywords = Repeat(<<<<"db">>>>, 9) \o <<<<"CPU">>>>

\* What belongs to a session: its entries in the registry, its row and the
\* requests made for it.
SessionView(s) ==
    <<s \in active, s \in cancelled, store[s],
      [r \in RunIds |-> IF run[r].sid = s THEN run[r] ELSE IdleRun],
      [c \in CancelIds |-> IF cancel[c].sid = s THEN cancel[c] ELSE IdleCancel]>>

\* C33: runs of different sessions do not interfere.  No step changes
\* what belongs to two sessions; a cancel request for a session marks no
\* other session cancelled; the exit of a run takes no other session out of
\* the registry; and a run that was the only one of its session, met no
\* fault and no cancel request for its session ends as it does alone (a
\* successful stream, stored status completed, a log of its own messages),
\* whatever the runs and cancel requests of other sessions did meanwhile.
C33_SessionsIsolated ==
    /\ [][\A a, b \in SessionIds :
            a # b => ~(SessionView(a)' # SessionView(a) /\ SessionView(b)' # SessionView(b))]_vars
    /\ [][\A a \in SessionIds : CancelStep(a) => cancelled' \ cancelled \subseteq {a}]_vars
    /\ [][\A r \in RunIds :
            (run[r].pc # "exited" /\ run'[r].pc = "exited")
            => /\ active \ active' \subseteq {run[r].sid}
               /\ cancelled \ cancelled' \subseteq {run[r].sid}]_vars
    /\ [](\A r \in RunIds :
            (/\ run[r].pc = "exited"
             /\ ~run[r].fault
             /\ \A q \in RunIds \ {r} : run[q].sid # run[r].sid
             /\ \A c \in CancelIds : cancel[c].sid # run[r].sid)
            => /\ SuccessfulStream(run[r].events)
               /\ store[run[r].sid].status = COMPLETED
               /\ \A k \in 1..Len(store[run[r].sid].messages) :
                     store[run[r].sid].messages[k].src = <<"run", r>>)

\* the run of session 1 was cancelled and has left the registry while the
\* run of session 2 awaits the oracle, registered and not marked
C33_Witness ==
    /\ run[1].sid = 1 /\ run[1].pc = "exited" /\ LastEvent(run[1].events) = EvCancelled
    /\ run[2].sid = 2 /\ run[2].pc = "analyze"
    /\ active = {2} /\ cancelled = {}
    /\ \E c \in CancelIds : cancel[c].sid = 1 /\ cancel[c].resp = "cancelled"

\* A cancel request for the session of run r has been answered cancelled.
\* When r is the only run of its session the request was accepted while r
\* was in progress: cancel_session accepts ids of the active set alone.
AnsweredCancelled(r) ==
    \E c \in CancelIds : cancel[c].sid = run[r].sid /\ cancel[c].resp = "cancelled"

\* C34: a full pipeline run during which a cancel request was accepted
\* observes it: once the run, the only one of its session and met by no
\* storage fault, has exited, its stream ends with the cancelled event and
\* holds no done event.
C34_CancelObserved ==
    \A r \in RunIds :
        (/\ Pipeline(r) /\ run[r].pc = "exited" /\ ~run[r].fault
         /\ \A q \in RunIds \ {r} : run[q].sid # run[r].sid
         /\ AnsweredCancelled(r))
        => /\ LastEvent(run[r].events) = EvCancelled
           /\ ~Has(run[r].events, EvDone)

\* C35: once a run, the only one of its session and met by no storage
\* fault, has exited and the cancel requests are answered, the stored
\* status agrees with the last event of its stream: completed exactly
\* with done, cancelled exactly with cancelled, error exactly with error.
C35_StatusAgrees ==
    \A r \in RunIds :
        (/\ run[r].pc = "exited" /\ ~run[r].fault
         /\ \A q \in RunIds \ {r} : run[q].sid # run[r].sid
         /\ CancelsAnswered)
        => LET last == LastEvent(run[r].events)
               status == store[run[r].sid].status
           IN /\ last = EvDone <=> status = COMPLETED
              /\ last = EvCancelled <=> status = CANCELLED
              /\ last = EvError <=> status = ERROR

\* Run r yields event e in this step.
Yields(r, e) == Count(run'[r].events, e) > Count(run[r].events, e)

\* C36: when a pipeline run yields stage_complete(intent_understanding),
\* stage_complete(data_collection) or stage_complete(llm_analysis) the
\* stored session holds the Intent, the Context or the Verdict, and when
\* it yields done the stored status is completed.
C36_PersistedFirst ==
    [][\A r \in RunIds :
         Pipeline(r) =>
            LET row == store'[run[r].sid]
            IN /\ Yields(r, StreamEvent("stage_complete", INTENT_UNDERSTANDING))
                    => row.intent # NoIntent
               /\ Yields(r, StreamEvent("stage_complete", DATA_COLLECTION))
                    => row.context.present
               /\ Yields(r, StreamEvent("stage_complete", LLM_ANALYSIS))
                    => row.result # None
               /\ Yields(r, EvDone) => row.status = COMPLETED]_vars

\* C37: while a pipeline or continuation run of a session is in progress
\* the id of the session is in the active set.
C37_ActiveWhileRunning ==
    \A r \in RunIds : InProgress(r) => run[r].sid \in active

\* Run r enters its generator in this step while no other run of its
\* session is in progress.
StartsAlone(r) ==
    /\ run[r].pc = "gen_load"
    /\ run'[r].pc # "gen_load"
    /\ \A q \in RunIds \ {r} : InProgress(q) => run[q].sid # run[r].sid

\* C38: a cancel flag does not outlive the run it was set for: a session
\* none of whose runs is in progress is not marked cancelled, and a run
\* that starts while no other run of its session is in progress finds and
\* leaves its session unmarked.
C38_FlagCleared ==
    /\ [](\A s \in SessionIds :
            (\A q \in RunIds : InProgress(q) => run[q].sid # s) => s \notin cancelled)
    /\ [][\A r \in RunIds :
            StartsAlone(r) => run[r].sid \notin cancelled \cup cancelled']_vars

\* a follow-up or reanalyze run is in progress, unmarked, after a first
\* run of the session was cancelled on request and has exited
C38_Witness ==
    /\ run[1].pc = "exited" /\ LastEvent(run[1].events) = EvCancelled
    /\ \E c \in CancelIds : cancel[c].sid = run[1].sid /\ cancel[c].resp = "cancelled"
    /\ run[2].kind \in {"continue", "reanalyze"} /\ run[2].sid = run[1].sid
    /\ run[2].pc \in {"f_analyze", "analyze"}
    /\ run[2].sid \notin cancelled

TerminalEvents == {EvDone, EvCancelled, EvError}
Terminals(evs) == Cardinality({k \in 1..Len(evs) : evs[k] \in TerminalEvents})

\* C39: the stream of a pipeline or continuation run never holds two
\* terminal events (done, cancelled, error), a terminal event it holds is
\* its last event, and the stream of a run that has exited holds one.
C39_OneTerminal ==
    \A r \in RunIds :
        LET evs == run[r].events
        IN /\ Terminals(evs) <= 1
           /\ Terminals(evs) = 1 => LastEvent(evs) \in TerminalEvents
           /\ run[r].pc = "exited" => Terminals(evs) = 1

\* the commit of the except clause of a pipeline run failed, the run has
\* left its generator with the exception and the error event of the
\* endpoint is the one terminal event of its stream
C39_Witness ==
    \E r \in RunIds :
        /\ Pipeline(r) /\ run[r].pc = "exited" /\ run[r].fault
        /\ store[run[r].sid].status # ERROR
        /\ LastEvent(run[r].events) = EvError
        /\ Count(run[r].events, EvError) = 1
        /\ Has(run[r].events, StreamEvent("stage_complete", DATA_COLLECTION))

\* C40: ticket numbers are unique: two calls of create_ticket never hold
\* the same number, and every call stores its ticket.
C40_TicketsUnique ==
    /\ \A c, d \in CreateIds :
          (c # d /\ tickets.call[c].pc # "idle" /\ tickets.call[d].pc # "idle")
          => tickets.call[c].no # tickets.call[d].no
    /\ \A c \in CreateIds :
          tickets.call[c].pc = "done" => tickets.call[c].outcome = "stored"

====
